---- MODULE Spec2Model ----
(***************************************************************************)
(* Model of the fly-lab-js simulation core: the DroneSimulator             *)
(* orchestrator (src/features/scripting/ui/CodeEditor.tsx), the            *)
(* PIDController / CascadedPIDController pair                              *)
(* (src/features/pid-control/model/PIDController.ts) and the DroneModel    *)
(* rigid body (src/lib/simulation/DroneSimulator.ts).                      *)
(*                                                                         *)
(* Numbers.  The program computes in IEEE doubles; the model computes in   *)
(* fixed point.  Unless said otherwise a quantity is held in thousandths   *)
(* of its SI unit (metres, m/s, radians, rad/s, newtons, motor fraction),  *)
(* wall-clock and simulated time are in milliseconds, PID gains are in     *)
(* hundredths and a PID integral is in millionths (thousandths x ms).      *)
(* Every product or quotient is truncated toward zero.                     *)
(***************************************************************************)
EXTENDS Integers, Sequences, FiniteSets, TLC

\* ------------------------------------------------------------------------
\* Bounds of the exploration
\* ------------------------------------------------------------------------

\* Wall-clock horizon in ms: no animation frame begins after it.
MaxNow == 30

\* Number of setter calls (setConfig, setControllerConfig, setSetpoints,
\* setManualInputs, setFlightMode) explored in one behaviour.
MaxCalls == 2

\* Capacity of the telemetry history.  The program's value is 10000
\* (CodeEditor.tsx:155); the model scales it down so that eviction happens
\* within the horizon.
maxHistoryLength == 3

\* Number of calls made on a controller or a rigid body explored on its own.
MaxOps == 3

\* Speed in mm/s up to which the values of a long flight are computed; a
\* step from a faster state is counted and its values are not.
MaxSpeed == 40000

\* Number of steps of a long flight: 20 simulated seconds at 10 ms.
FlightSteps == 2000

\* Requests one script makes.
MaxRequests == 2

\* ------------------------------------------------------------------------
\* Fixed-point helpers
\* ------------------------------------------------------------------------

\* null, for animationId: frame request ids start at 1.
NULL == 0

Abs(a) == IF a < 0 THEN -a ELSE a

\* Quotient truncated toward zero (b > 0).
TDiv(a, b) == IF a >= 0 THEN a \div b ELSE -((-a) \div b)

\* Product of two thousandths, in thousandths.
Mul(a, b) == TDiv(a * b, 1000)

Max(a, b) == IF a >= b THEN a ELSE b

Min(a, b) == IF a <= b THEN a ELSE b

RECURSIVE SqrtSearch(_, _, _)
SqrtSearch(n, lo, hi) ==
  IF lo >= hi THEN lo
  ELSE LET mid == (lo + hi + 1) \div 2
       IN  IF mid * mid <= n THEN SqrtSearch(n, mid, hi)
           ELSE SqrtSearch(n, lo, mid - 1)

\* Math.sqrt on a non-negative integer, rounded down.
Sqrt(n) == SqrtSearch(n, 0, 46340)

Pi == 3142

\* Math.sin / Math.cos of an angle in thousandths of a radian: reduction
\* to [-pi/2, pi/2] followed by the Taylor polynomial of degree 7.
SinPoly(x) ==
  LET series(x3, x5, x7) ==
        x - TDiv(x3, 6) + TDiv(x5, 120) - TDiv(x7, 5040)
      odd(x2, x3) == series(x3, Mul(x3, x2), Mul(Mul(x3, x2), x2))
      square(x2) == odd(x2, Mul(x2, x))
  IN  square(Mul(x, x))

\* An angle wrapped to (-pi, pi].
Wrap(a) ==
  LET fold(m) == IF m > Pi THEN m - 2 * Pi ELSE m
  IN  fold(a % (2 * Pi))

Sin(a) ==
  LET reduce(w) == IF w > Pi \div 2 THEN Pi - w
                   ELSE IF w < -(Pi \div 2) THEN -Pi - w
                   ELSE w
  IN  SinPoly(reduce(Wrap(a)))

CosPoly(x) ==
  LET series(x2, x4) ==
        1000 - TDiv(x2, 2) + TDiv(x4, 24) - TDiv(Mul(x4, x2), 720)
      even(x2) == series(x2, Mul(x2, x2))
  IN  even(Mul(x, x))

Cos(a) ==
  LET reduce(w) ==
        IF Abs(w) > Pi \div 2 THEN -CosPoly(Pi - Abs(w)) ELSE CosPoly(w)
  IN  reduce(Wrap(a))

\* ------------------------------------------------------------------------
\* PIDController (src/features/pid-control/model/PIDController.ts)
\* ------------------------------------------------------------------------

ZeroPIDState ==
  [error |-> 0, integral |-> 0, derivative |-> 0, lastError |-> 0, output |-> 0]

\* constructor(gains, outputMax, outputMin)
NewPID(gains, outputMax, outputMin) ==
  [gains     |-> gains,
   outputMin |-> outputMin,
   outputMax |-> outputMax,
   enabled   |-> gains.enabled,
   state     |-> ZeroPIDState]

\* "Clamp output" that applies the upper limit only.
clampOutput_upperOnly(c, output) == Min(c.outputMax, output)

\* "Clamp output"
clampOutput(c, output) == Max(c.outputMin, Min(c.outputMax, output))

\* "Anti-windup" that leaves the integral as accumulated.
antiWindup_none(c, error, integral, output, dt) == integral

\* "Anti-windup: limit integral if output is saturated"
antiWindup(c, error, integral, output, dt) ==
  IF \/ (output >= c.outputMax /\ error > 0)
     \/ (output <= c.outputMin /\ error < 0)
  THEN integral - error * dt
  ELSE integral

\* update(setpoint, measurement, dt): the controller after the call; the
\* value returned is PIDReturn below.  dt is in ms.
PIDUpdate(c, setpoint, measurement, dt) ==
  IF ~c.enabled THEN c
  ELSE
    LET \* the state the call leaves
        store(error, integral, derivative, output) ==
          [c EXCEPT !.state =
             [error      |-> error,
              integral   |-> antiWindup(c, error, integral, output, dt),
              derivative |-> derivative,
              lastError  |-> error,
              output     |-> output]]
        \* the three terms, their sum and the output limits
        terms(error, integral, derivative) ==
          store(error, integral, derivative,
                clampOutput(c, TDiv(c.gains.kp * error, 100)
                                 + TDiv(c.gains.ki * integral, 100000)
                                 + TDiv(c.gains.kd * derivative, 100)))
        accumulate(error) ==
          terms(error, c.state.integral + error * dt,
                TDiv((error - c.state.lastError) * 1000, dt))
    IN  accumulate(setpoint - measurement)

\* The value update() returns, given the controller before the call.
PIDReturn(c, setpoint, measurement, dt) ==
  IF ~c.enabled THEN 0 ELSE PIDUpdate(c, setpoint, measurement, dt).state.output

\* reset() that leaves lastError as it is.
PIDReset_keepLastError(c) ==
  [c EXCEPT !.state = [ZeroPIDState EXCEPT !.lastError = c.state.lastError]]

\* reset()
PIDReset(c) == [c EXCEPT !.state = ZeroPIDState]

\* setGains(gains) that also clears the accumulated state.
PIDSetGains_reset(c, gains) ==
  [c EXCEPT !.gains = gains, !.enabled = gains.enabled, !.state = ZeroPIDState]

\* setGains(gains)
PIDSetGains(c, gains) == [c EXCEPT !.gains = gains, !.enabled = gains.enabled]

PIDSetEnabled(c, enabled) ==
  IF enabled THEN [c EXCEPT !.enabled = TRUE]
  ELSE PIDReset([c EXCEPT !.enabled = FALSE])

\* ------------------------------------------------------------------------
\* CascadedPIDController
\* ------------------------------------------------------------------------

WithEnabled(gains) ==
  [kp |-> gains.kp, ki |-> gains.ki, kd |-> gains.kd, enabled |-> TRUE]

NewCascaded(outerGains, innerGains, maxVelocity, maxInnerSetpoint) ==
  [outerController  |-> NewPID(WithEnabled(outerGains), maxVelocity, -maxVelocity),
   innerController  |-> NewPID(WithEnabled(innerGains), maxInnerSetpoint,
                               -maxInnerSetpoint),
   maxInnerSetpoint |-> maxInnerSetpoint,
   enabled          |-> TRUE]

\* update(...) whose inner loop is given the position setpoint in place of
\* the outer loop's output.
CascadedUpdate_skipOuter(c, positionSetpoint, position, velocity, dt) ==
  IF ~c.enabled THEN c
  ELSE
    [c EXCEPT
       !.outerController = PIDUpdate(@, positionSetpoint, position, dt),
       !.innerController = PIDUpdate(@, positionSetpoint, velocity, dt)]

\* update(positionSetpoint, position, velocity, dt): the controller after
\* the call; the value returned is CascadedReturn below.
CascadedUpdate(c, positionSetpoint, position, velocity, dt) ==
  IF ~c.enabled THEN c
  ELSE
    [c EXCEPT
       !.outerController = PIDUpdate(@, positionSetpoint, position, dt),
       !.innerController =
         PIDUpdate(@, PIDReturn(c.outerController, positionSetpoint, position, dt),
                   velocity, dt)]

CascadedReturn(c, positionSetpoint, position, velocity, dt) ==
  IF ~c.enabled THEN 0
  ELSE
    Max(-c.maxInnerSetpoint,
        Min(c.maxInnerSetpoint,
            PIDReturn(c.innerController,
                      PIDReturn(c.outerController, positionSetpoint, position, dt),
                      velocity, dt)))

CascadedReset(c) ==
  [c EXCEPT !.outerController = PIDReset(@), !.innerController = PIDReset(@)]

CascadedSetOuterGains(c, gains) ==
  [c EXCEPT !.outerController = PIDSetGains(@, WithEnabled(gains))]

CascadedSetInnerGains(c, gains) ==
  [c EXCEPT !.innerController = PIDSetGains(@, WithEnabled(gains))]

CascadedSetEnabled(c, enabled) ==
  [c EXCEPT !.enabled = enabled,
            !.outerController = PIDSetEnabled(@, enabled),
            !.innerController = PIDSetEnabled(@, enabled)]

\* ------------------------------------------------------------------------
\* DroneModel (src/lib/simulation/DroneSimulator.ts, lines 432-610)
\* ------------------------------------------------------------------------

Vec(x, y, z) == [x |-> x, y |-> y, z |-> z]

\* params set by the constructor: mass in grams, length in mm, inertia in
\* 1e-4 kg m^2 (Ixx = Iyy = 0.0347563 rounds to 348), dragCoeff in
\* hundredths, maxThrust in newtons, thrustToTorqueRatio in thousandths.
params ==
  [mass |-> 1500, length |-> 250,
   inertia |-> [Ixx |-> 348, Iyy |-> 348, Izz |-> 577],
   dragCoeff |-> 1, maxThrust |-> 15, thrustToTorqueRatio |-> 16]

gravity == 9810

getInitialState ==
  [position        |-> Vec(0, 0, 0),
   velocity        |-> Vec(0, 0, 0),
   orientation     |-> Vec(0, 0, 0),
   angularVelocity |-> Vec(0, 0, 0)]

bodyToWorld(bodyVector, roll, pitch, yaw) ==
  LET rotate(cr, sr, cp, sp, cy, sy) ==
        Vec(Mul(bodyVector.x, Mul(cy, cp))
              + Mul(bodyVector.y, Mul(Mul(cy, sp), sr) - Mul(sy, cr))
              + Mul(bodyVector.z, Mul(Mul(cy, sp), cr) + Mul(sy, sr)),
            Mul(bodyVector.x, Mul(sy, cp))
              + Mul(bodyVector.y, Mul(Mul(sy, sp), sr) + Mul(cy, cr))
              + Mul(bodyVector.z, Mul(Mul(sy, sp), cr) - Mul(cy, sr)),
            Mul(bodyVector.x, -sp)
              + Mul(bodyVector.y, Mul(cp, sr))
              + Mul(bodyVector.z, Mul(cp, cr)))
  IN  rotate(Cos(roll), Sin(roll), Cos(pitch), Sin(pitch), Cos(yaw), Sin(yaw))

\* calculateDrag(): in mN, from the velocity in mm/s.
calculateDrag(state) ==
  LET direction(velocity, speed, dragMagnitude) ==
        IF speed = 0 THEN Vec(0, 0, 0)
        ELSE Vec(TDiv(-dragMagnitude * velocity.x, speed),
                 TDiv(-dragMagnitude * velocity.y, speed),
                 TDiv(-dragMagnitude * velocity.z, speed))
      magnitude(velocity, speed) ==
        direction(velocity, speed,
                  TDiv(params.dragCoeff * speed * speed, 100000))
      drag(velocity) ==
        magnitude(velocity,
                  Sqrt(velocity.x * velocity.x + velocity.y * velocity.y
                       + velocity.z * velocity.z))
  IN  drag(state.velocity)

\* calculateForces(inputs): world-frame force in mN.
calculateForces(state, inputs) ==
  LET total(thrust, dragForce) ==
        Vec(thrust.x - dragForce.x,
            thrust.y - dragForce.y,
            thrust.z - TDiv(params.mass * gravity, 1000) - dragForce.z)
      totalThrust == (inputs.motor1 + inputs.motor2 + inputs.motor3
                      + inputs.motor4) * params.maxThrust
  IN  total(bodyToWorld(Vec(0, 0, totalThrust), state.orientation.x,
                        state.orientation.y, state.orientation.z),
            calculateDrag(state))

\* calculateTorques(inputs): body torque in mN m.
calculateTorques(inputs) ==
  LET f1 == inputs.motor1 * params.maxThrust
      f2 == inputs.motor2 * params.maxThrust
      f3 == inputs.motor3 * params.maxThrust
      f4 == inputs.motor4 * params.maxThrust
      armLength == TDiv(params.length * 1000, 1414)
  IN  Vec(Mul(f1 - f2 - f3 + f4, armLength),
          Mul(f1 + f2 - f3 - f4, armLength),
          Mul(f1 - f2 + f3 - f4, params.thrustToTorqueRatio))

\* The end of integrateMotion with the test of position.z left out.
preventGroundPenetration_none(p, v, o, w) ==
  [position |-> p, velocity |-> v, orientation |-> o, angularVelocity |-> w]

\* "Prevent ground penetration", the end of integrateMotion
preventGroundPenetration(p, v, o, w) ==
  [position        |-> Vec(p.x, p.y, IF p.z < 0 THEN 0 ELSE p.z),
   velocity        |-> Vec(v.x, v.y, IF p.z < 0 THEN Max(0, v.z) ELSE v.z),
   orientation     |-> o,
   angularVelocity |-> w]

\* integrateMotion(forces, torques, dt): semi-implicit Euler, then the
\* ground clamp.  The orientation is not normalised by this variant.
integrateMotion(state, forces, torques, dt) ==
  LET \* position and orientation from the new velocities
        advance(v, w) ==
          preventGroundPenetration(
                 Vec(state.position.x + TDiv(v.x * dt, 1000),
                     state.position.y + TDiv(v.y * dt, 1000),
                     state.position.z + TDiv(v.z * dt, 1000)),
                 v,
                 Vec(state.orientation.x + TDiv(w.x * dt, 1000),
                     state.orientation.y + TDiv(w.y * dt, 1000),
                     state.orientation.z + TDiv(w.z * dt, 1000)),
                 w)
        \* velocities from the linear and angular accelerations
        accelerate(a, alpha) ==
          advance(Vec(state.velocity.x + TDiv(a.x * dt, 1000),
                      state.velocity.y + TDiv(a.y * dt, 1000),
                      state.velocity.z + TDiv(a.z * dt, 1000)),
                  Vec(state.angularVelocity.x + TDiv(alpha.x * dt, 1000),
                      state.angularVelocity.y + TDiv(alpha.y * dt, 1000),
                      state.angularVelocity.z + TDiv(alpha.z * dt, 1000)))
  IN  accelerate(Vec(TDiv(forces.x * 1000, params.mass),
                     TDiv(forces.y * 1000, params.mass),
                     TDiv(forces.z * 1000, params.mass)),
                 Vec(TDiv(torques.x * 10000, params.inertia.Ixx),
                     TDiv(torques.y * 10000, params.inertia.Iyy),
                     TDiv(torques.z * 10000, params.inertia.Izz)))

\* update(motorInputs, dt): the values of the four state vectors after the
\* call.  The vectors are updated in place (see the heap below).
DroneModelUpdate(state, motorInputs, dt) ==
  integrateMotion(state, calculateForces(state, motorInputs),
                  calculateTorques(motorInputs), dt)

\* ------------------------------------------------------------------------
\* DroneSimulator (src/features/scripting/ui/CodeEditor.tsx, lines 132-540)
\* ------------------------------------------------------------------------

FlightMode == {"manual", "stabilized", "altitude_hold", "position_hold", "waypoint"}

\* The spread written in the other order, { ...p, ...r }: the current values
\* win.
Merge_currentWins(r, p) == r

\* Merge of a partial object into an object: { ...r, ...p }.
Merge(r, p) == [k \in DOMAIN r |-> IF k \in DOMAIN p THEN p[k] ELSE r[k]]

Gains(kp, ki, kd, enabled) == [kp |-> kp, ki |-> ki, kd |-> kd, enabled |-> enabled]

LoopGains(kp, ki, kd) == [kp |-> kp, ki |-> ki, kd |-> kd]

\* The values the constructor assigns.
InitConfig ==
  [timestep |-> 10, realTimeMultiplier |-> 10,
   enablePhysics |-> TRUE, enableControl |-> TRUE]

InitControllerConfig ==
  [altitude |-> Gains(800, 50, 200, TRUE),
   attitude |-> [roll  |-> Gains(600, 10, 150, TRUE),
                 pitch |-> Gains(600, 10, 150, TRUE),
                 yaw   |-> Gains(400, 5, 100, TRUE)],
   position |-> [x |-> [outer |-> LoopGains(200, 10, 50),
                        inner |-> LoopGains(300, 0, 80),
                        enabled |-> TRUE],
                 y |-> [outer |-> LoopGains(200, 10, 50),
                        inner |-> LoopGains(300, 0, 80),
                        enabled |-> TRUE]]]

InitSetpoints == [position |-> Vec(0, 0, 2000), attitude |-> Vec(0, 0, 0)]

InitManualInputs == [pitch |-> 0, roll |-> 0, yaw |-> 0, throttle |-> 500]

\* initializeControllers() with an altitude controller that may also take
\* thrust away: output range [-10, 10].
initializeControllers_symmetric(cc) ==
  [altitudeController  |-> NewPID(cc.altitude, 10000, -10000),
   rollController      |-> NewPID(cc.attitude.roll, 500, -500),
   pitchController     |-> NewPID(cc.attitude.pitch, 500, -500),
   yawController       |-> NewPID(cc.attitude.yaw, 300, -300),
   positionXController |-> NewCascaded(cc.position.x.outer, cc.position.x.inner,
                                       3000, 300),
   positionYController |-> NewCascaded(cc.position.y.outer, cc.position.y.inner,
                                       3000, 300)]

\* initializeControllers()
initializeControllers(cc) ==
  [altitudeController  |-> NewPID(cc.altitude, 10000, 0),
   rollController      |-> NewPID(cc.attitude.roll, 500, -500),
   pitchController     |-> NewPID(cc.attitude.pitch, 500, -500),
   yawController       |-> NewPID(cc.attitude.yaw, 300, -300),
   positionXController |-> NewCascaded(cc.position.x.outer, cc.position.x.inner,
                                       3000, 300),
   positionYController |-> NewCascaded(cc.position.y.outer, cc.position.y.inner,
                                       3000, 300)]

\* updateControllerGains()
updateControllerGains(c, cc) ==
  [altitudeController |->
     PIDSetEnabled(PIDSetGains(c.altitudeController, cc.altitude),
                   cc.altitude.enabled),
   rollController |->
     PIDSetEnabled(PIDSetGains(c.rollController, cc.attitude.roll),
                   cc.attitude.roll.enabled),
   pitchController |->
     PIDSetEnabled(PIDSetGains(c.pitchController, cc.attitude.pitch),
                   cc.attitude.pitch.enabled),
   yawController |->
     PIDSetEnabled(PIDSetGains(c.yawController, cc.attitude.yaw),
                   cc.attitude.yaw.enabled),
   positionXController |->
     CascadedSetEnabled(
       CascadedSetInnerGains(
         CascadedSetOuterGains(c.positionXController, cc.position.x.outer),
         cc.position.x.inner),
       cc.position.x.enabled),
   positionYController |->
     CascadedSetEnabled(
       CascadedSetInnerGains(
         CascadedSetOuterGains(c.positionYController, cc.position.y.outer),
         cc.position.y.inner),
       cc.position.y.enabled)]

\* calculateControlOutputs(state, dt): the controllers after their updates
\* and the outputs returned.
calculateControlOutputs(c, setpoints, state, dt) ==
  LET \* "Attitude control" and the return value
      attitude(altitudeOutput, pitchDesired, rollDesired) ==
        [controllers |->
           [altitudeController  |->
              PIDUpdate(c.altitudeController, setpoints.position.z,
                        state.position.z, dt),
            positionXController |->
              CascadedUpdate(c.positionXController, setpoints.position.x,
                             state.position.x, state.velocity.x, dt),
            positionYController |->
              CascadedUpdate(c.positionYController, setpoints.position.y,
                             state.position.y, state.velocity.y, dt),
            rollController      |->
              PIDUpdate(c.rollController, rollDesired, state.orientation.x, dt),
            pitchController     |->
              PIDUpdate(c.pitchController, pitchDesired, state.orientation.y, dt),
            yawController       |->
              PIDUpdate(c.yawController, setpoints.attitude.z,
                        state.orientation.z, dt)],
         outputs |->
           [altitude  |-> altitudeOutput,
            roll      |-> PIDReturn(c.rollController, rollDesired,
                                    state.orientation.x, dt),
            pitch     |-> PIDReturn(c.pitchController, pitchDesired,
                                    state.orientation.y, dt),
            yaw       |-> PIDReturn(c.yawController, setpoints.attitude.z,
                                    state.orientation.z, dt),
            positionX |-> pitchDesired,
            positionY |-> rollDesired]]
  IN  \* "Altitude control" and "Position control (cascaded)"
      attitude(PIDReturn(c.altitudeController, setpoints.position.z,
                         state.position.z, dt),
               CascadedReturn(c.positionXController, setpoints.position.x,
                              state.position.x, state.velocity.x, dt),
               -CascadedReturn(c.positionYController, setpoints.position.y,
                               state.position.y, state.velocity.y, dt))

\* The switch on the flight mode with the manual case using the authority
\* 0.2 of the stabilized case.
modeInputs_manualAuthority(mode, manual, controlOutputs) ==
  CASE mode = "manual" ->
         [baseThrust |-> manual.throttle,
          rollInput  |-> TDiv(manual.roll * 2, 10),
          pitchInput |-> TDiv(manual.pitch * 2, 10),
          yawInput   |-> TDiv(manual.yaw * 2, 10)]
    [] mode = "stabilized" ->
         [baseThrust |-> manual.throttle,
          rollInput  |-> controlOutputs.roll + TDiv(manual.roll * 2, 10),
          pitchInput |-> controlOutputs.pitch + TDiv(manual.pitch * 2, 10),
          yawInput   |-> controlOutputs.yaw + TDiv(manual.yaw * 2, 10)]
    [] mode = "altitude_hold" ->
         [baseThrust |-> 650 + controlOutputs.altitude,
          rollInput  |-> TDiv(manual.roll * 2, 10),
          pitchInput |-> TDiv(manual.pitch * 2, 10),
          yawInput   |-> controlOutputs.yaw + TDiv(manual.yaw * 2, 10)]
    [] OTHER ->
         [baseThrust |-> 650 + controlOutputs.altitude,
          rollInput  |-> controlOutputs.roll,
          pitchInput |-> controlOutputs.pitch,
          yawInput   |-> controlOutputs.yaw]

\* controlOutputsToMotorInputs, the switch on the flight mode: the base
\* thrust and the three axis inputs.
modeInputs(mode, manual, controlOutputs) ==
  LET altitude == controlOutputs.altitude
      roll     == controlOutputs.roll
      pitch    == controlOutputs.pitch
      yaw      == controlOutputs.yaw
  IN  CASE mode = "manual" ->
             [baseThrust |-> manual.throttle,
              rollInput  |-> TDiv(manual.roll * 3, 10),
              pitchInput |-> TDiv(manual.pitch * 3, 10),
              yawInput   |-> TDiv(manual.yaw * 3, 10)]
        [] mode = "stabilized" ->
             [baseThrust |-> manual.throttle,
              rollInput  |-> roll + TDiv(manual.roll * 2, 10),
              pitchInput |-> pitch + TDiv(manual.pitch * 2, 10),
              yawInput   |-> yaw + TDiv(manual.yaw * 2, 10)]
        [] mode = "altitude_hold" ->
             [baseThrust |-> 650 + altitude,
              rollInput  |-> TDiv(manual.roll * 2, 10),
              pitchInput |-> TDiv(manual.pitch * 2, 10),
              yawInput   |-> yaw + TDiv(manual.yaw * 2, 10)]
        [] OTHER ->
             [baseThrust |-> 650 + altitude,
              rollInput  |-> roll,
              pitchInput |-> pitch,
              yawInput   |-> yaw]

\* Math.max(0, Math.min(1, v)) with the upper clamp left out.
Clamp01_noUpper(v) == Max(0, v)

\* Math.max(0, Math.min(1, v))
Clamp01(v) == Max(0, Min(1000, v))

\* "Combine control outputs" with the yaw term of motor 2 added instead of
\* subtracted.
combine_yawSign(in) ==
  LET motor1 == in.baseThrust + in.pitchInput + in.yawInput
      motor2 == in.baseThrust + in.pitchInput + in.yawInput
      motor3 == in.baseThrust - in.pitchInput + in.yawInput
      motor4 == in.baseThrust - in.pitchInput - in.yawInput
  IN  [motor1 |-> Clamp01(motor1 - in.rollInput),
       motor2 |-> Clamp01(motor2 + in.rollInput),
       motor3 |-> Clamp01(motor3 - in.rollInput),
       motor4 |-> Clamp01(motor4 + in.rollInput)]

\* controlOutputsToMotorInputs, "Combine control outputs" and the return.
combine(in) ==
  LET motor1 == in.baseThrust + in.pitchInput + in.yawInput
      motor2 == in.baseThrust + in.pitchInput - in.yawInput
      motor3 == in.baseThrust - in.pitchInput + in.yawInput
      motor4 == in.baseThrust - in.pitchInput - in.yawInput
  IN  [motor1 |-> Clamp01(motor1 - in.rollInput),
       motor2 |-> Clamp01(motor2 + in.rollInput),
       motor3 |-> Clamp01(motor3 - in.rollInput),
       motor4 |-> Clamp01(motor4 + in.rollInput)]

\* controlOutputsToMotorInputs(controlOutputs) with the waypoint mode mixed as
\* the stabilized mode is.
controlOutputsToMotorInputs_waypointSticks(mode, manual, controlOutputs) ==
  combine(modeInputs(IF mode = "waypoint" THEN "stabilized" ELSE mode,
                     manual, controlOutputs))

\* controlOutputsToMotorInputs(controlOutputs)
controlOutputsToMotorInputs(mode, manual, controlOutputs) ==
  combine(modeInputs(mode, manual, controlOutputs))

ZeroOutputs ==
  [altitude |-> 0, roll |-> 0, pitch |-> 0, yaw |-> 0,
   positionX |-> 0, positionY |-> 0]

IdleMotors == [motor1 |-> 600, motor2 |-> 600, motor3 |-> 600, motor4 |-> 600]

\* ------------------------------------------------------------------------
\* State
\* ------------------------------------------------------------------------

VARIABLES
  heap,             \* vector objects of DroneModel.state: object id -> values
  drone,            \* id of the vector objects DroneModel.state refers to
  config,           \* SimulationConfig
  controllerConfig, \* ControllerConfig
  controllers,      \* the six controller objects
  setpoints,
  flightMode,
  manualInputs,
  currentTime,      \* simulated time, ms
  isRunning,
  animationId,      \* id of the last frame request, or NULL
  lastFrameTime,    \* wall clock of the last stepped tick, ms
  dataHistory,      \* telemetry samples, oldest first
  onUpdate,         \* TRUE when an update callback is registered
  onReset,          \* TRUE when a reset callback is registered
  now,              \* performance.now(), ms
  frameTime,        \* timestamp of the animation frame being run
  pending,          \* frame requests waiting for the next frame, in order
  queue,            \* frame requests of the running frame not yet called
  recorded,         \* history: value of the state when each sample was appended
  ev,               \* history: what the last handler did
  lastCall,         \* history: the last of start/pause/reset to return
  calls,            \* history: number of setter calls made
  mixer,            \* a control output vector and what the mixer made of it
  loop,             \* a PIDController on its own and the last call made on it
  cascade,          \* a CascadedPIDController on its own and the last call
  body,             \* a DroneModel on its own and its last update
  craft,            \* the vehicle as the script executor sees it, with the
                    \* waypoint list and its cursor
  channel           \* the script worker, the messages in flight and the
                    \* completion checks of the main thread

vars ==
  <<heap, drone, config, controllerConfig, controllers, setpoints, flightMode,
    manualInputs, currentTime, isRunning, animationId, lastFrameTime,
    dataHistory, onUpdate, onReset, now, frameTime, pending, queue, recorded,
    ev, lastCall, calls, mixer, loop, cascade, body, craft, channel>>

\* The variables of the scripted mission.
script == <<craft, channel>>

\* The variables of the orchestrator.
simulator ==
  <<heap, drone, config, controllerConfig, controllers, setpoints, flightMode,
    manualInputs, currentTime, isRunning, animationId, lastFrameTime,
    dataHistory, onUpdate, onReset, now, frameTime, pending, queue, recorded,
    ev, lastCall, calls>>

\* The current state as one record, so that a handler can call another.
Cur ==
  [heap |-> heap, drone |-> drone, config |-> config,
   controllerConfig |-> controllerConfig, controllers |-> controllers,
   setpoints |-> setpoints, flightMode |-> flightMode,
   manualInputs |-> manualInputs, currentTime |-> currentTime,
   isRunning |-> isRunning, animationId |-> animationId,
   lastFrameTime |-> lastFrameTime, dataHistory |-> dataHistory,
   onUpdate |-> onUpdate, onReset |-> onReset, now |-> now,
   frameTime |-> frameTime, pending |-> pending, queue |-> queue,
   recorded |-> recorded, ev |-> ev, lastCall |-> lastCall, calls |-> calls]

Range(q) == {q[i] : i \in 1..Len(q)}

Without(q, id) == SelectSeq(q, LAMBDA e : e # id)

\* What one handler did: the operation and its argument, the number of
\* step() bodies run, of onUpdate and onReset invocations, of reset() bodies
\* run, the samples reset() discarded, the wall-clock delta animate() saw, and
\* (as sequences of length 0 or 1) the sample its step appended and the one it
\* handed to onUpdate.
Event(op, arg) ==
  [op |-> op, arg |-> arg, steps |-> 0, updates |-> 0, resets |-> 0,
   notified |-> 0, dropped |-> 0, deltaTime |-> 0,
   appended |-> <<>>, delivered |-> <<>>]

NoEvent(op) == Event(op, "")

Begin(op) == [Cur EXCEPT !.ev = NoEvent(op)]

\* Object ids still referred to by a holder of a sample.
Refs(s) ==
  {s.dataHistory[i].state : i \in 1..Len(s.dataHistory)}
    \cup {s.ev.appended[i].state : i \in 1..Len(s.ev.appended)}
    \cup {s.ev.delivered[i].state : i \in 1..Len(s.ev.delivered)}

\* getState(): { ...this.state } copies the four references, not the vectors;
\* the result is the id of the vector objects.
getState(s) == s.drone

\* The values a holder of reference r reads.
Deref(s, r) == s.heap[r]

\* requestAnimationFrame: the id handed out.
FreshId(s) ==
  CHOOSE i \in 1..(Len(s.pending) + Len(s.queue) + 1) :
    /\ i \notin Range(s.pending) \cup Range(s.queue)
    /\ \A j \in 1..(i - 1) : j \in Range(s.pending) \cup Range(s.queue)

\* this.animationId = requestAnimationFrame(this.animate)
requestAnimationFrame(s) ==
  [s EXCEPT !.animationId = FreshId(s), !.pending = Append(@, FreshId(s))]

cancelAnimationFrame(s, id) ==
  [s EXCEPT !.pending = Without(@, id), !.queue = Without(@, id)]

\* start()
start(s) ==
  LET t == [s EXCEPT !.lastCall = "start"]
  IN  IF ~s.isRunning
      THEN requestAnimationFrame(
             [t EXCEPT !.isRunning = TRUE, !.lastFrameTime = s.now])
      ELSE t

\* pause()
pause(s) ==
  LET t == [s EXCEPT !.isRunning = FALSE, !.lastCall = "pause"]
  IN  IF s.animationId # NULL
      THEN [cancelAnimationFrame(t, s.animationId) EXCEPT !.animationId = NULL]
      ELSE t

\* DroneModel.reset(): this.state = this.getInitialState() makes new vector
\* objects; the old ones stay as they are for whoever still holds them.
DroneModelReset(s) ==
  LET id == CHOOSE i \in 0..Cardinality(Refs(s)) :
              /\ i \notin Refs(s)
              /\ \A j \in 0..(i - 1) : j \in Refs(s)
  IN  [s EXCEPT !.drone = id,
                !.heap = [r \in (DOMAIN s.heap) \cup {id} |->
                            IF r = id THEN getInitialState ELSE s.heap[r]]]

\* reset(), "Reset controllers".
resetControllers(c) ==
  [altitudeController  |-> PIDReset(c.altitudeController),
   rollController      |-> PIDReset(c.rollController),
   pitchController     |-> PIDReset(c.pitchController),
   yawController       |-> PIDReset(c.yawController),
   positionXController |-> CascadedReset(c.positionXController),
   positionYController |-> CascadedReset(c.positionYController)]

\* reset() that also puts the flight mode back to its initial value.
reset_mode(s) ==
  LET p == pause(s)
  IN  DroneModelReset(
        [p EXCEPT !.currentTime = 0,
                  !.dataHistory = <<>>,
                  !.recorded = <<>>,
                  !.controllers = resetControllers(@),
                  !.flightMode = "position_hold",
                  !.lastCall = "reset",
                  !.ev.resets = @ + 1,
                  !.ev.dropped = @ + Len(p.dataHistory),
                  !.ev.notified = IF p.onReset THEN @ + 1 ELSE @])

\* reset()
reset(s) ==
  LET p == pause(s)
  IN  DroneModelReset(
        [p EXCEPT !.currentTime = 0,
                  !.dataHistory = <<>>,
                  !.recorded = <<>>,
                  !.controllers = resetControllers(@),
                  !.lastCall = "reset",
                  !.ev.resets = @ + 1,
                  !.ev.dropped = @ + Len(p.dataHistory),
                  !.ev.notified = IF p.onReset THEN @ + 1 ELSE @])

\* What a registered update callback does with the orchestrator: nothing,
\* or a sequence of lifecycle calls.
Callbacks == {<<>>, <<"pause">>, <<"reset">>, <<"pause", "start">>}

Call(s, op) ==
  CASE op = "pause" -> pause(s)
    [] op = "start" -> start(s)
    [] op = "reset" -> reset(s)

RECURSIVE RunCallback(_, _)
RunCallback(s, ops) ==
  IF ops = <<>> THEN s ELSE RunCallback(Call(s, Head(ops)), Tail(ops))

\* step(), "Log data": push, and shift when over the capacity; with pop()
\* in place of shift().
pushHistory_pop(history, data) ==
  LET pushed == Append(history, data)
  IN  IF Len(pushed) > maxHistoryLength
      THEN SubSeq(pushed, 1, Len(pushed) - 1)
      ELSE pushed

\* step(), "Log data": this.dataHistory.push(data), then shift() when the
\* length exceeds maxHistoryLength.
pushHistory(history, data) ==
  LET pushed == Append(history, data)
  IN  IF Len(pushed) > maxHistoryLength THEN Tail(pushed) ELSE pushed

\* this.currentTime += dt, with dt scaled by the real-time multiplier.
advanceTime_scaled(s, dt) == s.currentTime + TDiv(dt * s.config.realTimeMultiplier, 10)

\* this.currentTime += dt
advanceTime(s, dt) == s.currentTime + dt

\* "Notify observers" with a sample built after the time was advanced.
notify_late(s, data, cb) ==
  IF s.onUpdate
  THEN RunCallback([s EXCEPT !.ev.updates = @ + 1,
                             !.ev.delivered =
                               <<[data EXCEPT !.time = s.currentTime]>>], cb)
  ELSE s

\* step(), "Notify observers": if (this.onUpdate) this.onUpdate(data); cb is
\* what the callback does with the orchestrator.
notify(s, data, cb) ==
  IF s.onUpdate
  THEN RunCallback([s EXCEPT !.ev.updates = @ + 1, !.ev.delivered = <<data>>],
                   cb)
  ELSE s

\* step(), "Update physics", without the test of enablePhysics.
updatePhysics_always(cfg, state, motorInputs) ==
  DroneModelUpdate(state, motorInputs, cfg.timestep)

\* step(), "Update physics": if (this.config.enablePhysics)
\* this.drone.update(motorInputs, dt).
updatePhysics(cfg, state, motorInputs) ==
  IF cfg.enablePhysics
  THEN DroneModelUpdate(state, motorInputs, cfg.timestep)
  ELSE state

\* step(), the test before "Calculate control outputs", without its two
\* conditions: the controllers run in every step.
controlEngaged_always(cfg, mode) == TRUE

\* step(): if (this.config.enableControl && this.flightMode !== 'manual')
controlEngaged(cfg, mode) == cfg.enableControl /\ mode # "manual"

\* step()
step(s, cb) ==
  LET \* "Log data", this.currentTime += dt and "Notify observers"
      log(ctl, moved, data) ==
        notify([s EXCEPT
                  !.heap = [@ EXCEPT ![getState(s)] = moved],
                  !.controllers = ctl,
                  !.dataHistory = pushHistory(@, data),
                  !.recorded = pushHistory(@, moved),
                  !.currentTime = advanceTime(s, s.config.timestep),
                  !.ev.steps = @ + 1,
                  !.ev.appended = <<data>>],
               data, cb)
      \* "Update drone physics": this.drone.update(motorInputs, dt) writes
      \* into the vector objects
      physics(state, ctl, controlOutputs, motorInputs, errors) ==
        log(ctl,
            updatePhysics(s.config, state, motorInputs),
            [time |-> s.currentTime,
             state |-> getState(s),
             motorInputs |-> motorInputs,
             controlOutputs |-> controlOutputs,
             errors |-> errors,
             setpoints |-> s.setpoints,
             flightMode |-> s.flightMode,
             manualInputs |-> s.manualInputs])
      \* the motor inputs and the controller errors of the sample
      mix(state, controlled, ctl, controlOutputs) ==
        physics(state, ctl, controlOutputs,
                IF controlled \/ s.flightMode = "manual"
                THEN controlOutputsToMotorInputs(s.flightMode, s.manualInputs,
                                                 controlOutputs)
                ELSE IdleMotors,
                IF controlled
                THEN [altitude  |-> ctl.altitudeController.state.error,
                      roll      |-> ctl.rollController.state.error,
                      pitch     |-> ctl.pitchController.state.error,
                      yaw       |-> ctl.yawController.state.error,
                      positionX |->
                        ctl.positionXController.outerController.state.error,
                      positionY |->
                        ctl.positionYController.outerController.state.error]
                ELSE ZeroOutputs)
      \* "Calculate control outputs"
      control(state, controlled, cco) ==
        mix(state, controlled,
            IF controlled THEN cco.controllers ELSE s.controllers,
            IF controlled THEN cco.outputs ELSE ZeroOutputs)
      read(state) ==
        control(state, controlEngaged(s.config, s.flightMode),
                calculateControlOutputs(s.controllers, s.setpoints, state,
                                        s.config.timestep))
  IN  read(Deref(s, getState(s)))

\* animate(frameTime) without the test of isRunning.
animate_unguarded(s, cb) ==
  LET deltaTime == s.frameTime - s.lastFrameTime
      due == deltaTime * s.config.realTimeMultiplier >= s.config.timestep * 10
      e == [s EXCEPT !.ev.deltaTime = deltaTime]
      t == IF due
           THEN [step(e, cb) EXCEPT !.lastFrameTime = s.frameTime]
           ELSE e
  IN  requestAnimationFrame(t)

\* animate(frameTime) that catches up: a second step when two periods passed.
animate_catchUp(s, cb) ==
  IF ~s.isRunning THEN s
  ELSE
    LET deltaTime == s.frameTime - s.lastFrameTime
        due == deltaTime * s.config.realTimeMultiplier >= s.config.timestep * 10
        twice == deltaTime * s.config.realTimeMultiplier
                   >= 2 * s.config.timestep * 10
        e == [s EXCEPT !.ev.deltaTime = deltaTime]
        t == IF twice
             THEN [step(step(e, <<>>), cb) EXCEPT !.lastFrameTime = s.frameTime]
             ELSE IF due
             THEN [step(e, cb) EXCEPT !.lastFrameTime = s.frameTime]
             ELSE e
    IN  requestAnimationFrame(t)

\* animate(frameTime)
animate(s, cb) ==
  IF ~s.isRunning THEN s
  ELSE
    LET deltaTime == s.frameTime - s.lastFrameTime
        \* deltaTime >= timestep * 1000 / realTimeMultiplier
        due == deltaTime * s.config.realTimeMultiplier >= s.config.timestep * 10
        e == [s EXCEPT !.ev.deltaTime = deltaTime]
        t == IF due
             THEN [step(e, cb) EXCEPT !.lastFrameTime = s.frameTime]
             ELSE e
    IN  requestAnimationFrame(t)

\* ------------------------------------------------------------------------
\* Inputs explored
\* ------------------------------------------------------------------------

\* Wall-clock time between two animation frames, ms.
FrameDeltas == {5, 20}

ConfigPatches ==
  {[enablePhysics |-> FALSE], [enableControl |-> FALSE],
   [timestep |-> 20], [realTimeMultiplier |-> 20]}

SetpointPatches ==
  {[position |-> Vec(1000, -1000, 0)]}

ManualPatches == {[throttle |-> 0, roll |-> 1000, yaw |-> -1000]}

ControllerPatches ==
  {[altitude |-> Gains(400, 100, 100, TRUE),
    attitude |-> [roll  |-> Gains(1200, 100, 0, TRUE),
                  pitch |-> Gains(600, 10, 150, FALSE),
                  yaw   |-> Gains(50, 0, 0, TRUE)]],
   [position |-> [x |-> [outer |-> LoopGains(400, 0, 0),
                         inner |-> LoopGains(100, 0, 0),
                         enabled |-> TRUE],
                  y |-> [outer |-> LoopGains(200, 10, 50),
                         inner |-> LoopGains(300, 0, 80),
                         enabled |-> FALSE]]]}

\* ------------------------------------------------------------------------
\* Actions
\* ------------------------------------------------------------------------

\* The state after a handler; vector objects nobody refers to are dropped.
Apply(r) ==
  /\ heap' = [i \in Refs(r) \cup {r.drone} |-> r.heap[i]]
  /\ drone' = r.drone
  /\ config' = r.config
  /\ controllerConfig' = r.controllerConfig
  /\ controllers' = r.controllers
  /\ setpoints' = r.setpoints
  /\ flightMode' = r.flightMode
  /\ manualInputs' = r.manualInputs
  /\ currentTime' = r.currentTime
  /\ isRunning' = r.isRunning
  /\ animationId' = r.animationId
  /\ lastFrameTime' = r.lastFrameTime
  /\ dataHistory' = r.dataHistory
  /\ onUpdate' = r.onUpdate
  /\ onReset' = r.onReset
  /\ now' = r.now
  /\ frameTime' = r.frameTime
  /\ pending' = r.pending
  /\ queue' = r.queue
  /\ recorded' = r.recorded
  /\ ev' = r.ev
  /\ lastCall' = r.lastCall
  /\ calls' = r.calls
  /\ UNCHANGED <<mixer, loop, cascade, body, script>>

\* Calls from outside arrive between frames, never between two callbacks of
\* one frame.
Idle == queue = <<>>

Start == Idle /\ Apply(start(Begin("start")))

Pause == Idle /\ Apply(pause(Begin("pause")))

Reset == Idle /\ Apply(reset(Begin("reset")))

Setter(op, r) ==
  /\ Idle
  /\ calls < MaxCalls
  /\ Apply([r EXCEPT !.ev = NoEvent(op), !.calls = @ + 1])

SetConfig ==
  \E p \in ConfigPatches :
    Setter("setConfig", [Cur EXCEPT !.config = Merge(@, p)])

SetControllerConfig ==
  \E p \in ControllerPatches :
    LET cc == Merge(controllerConfig, p)
    IN  Setter("setControllerConfig",
               [Cur EXCEPT !.controllerConfig = cc,
                           !.controllers = updateControllerGains(@, cc)])

SetSetpoints ==
  \E p \in SetpointPatches :
    Setter("setSetpoints", [Cur EXCEPT !.setpoints = Merge(@, p)])

SetManualInputs ==
  \E p \in ManualPatches :
    Setter("setManualInputs", [Cur EXCEPT !.manualInputs = Merge(@, p)])

SetFlightMode ==
  \E m \in FlightMode :
    /\ Idle
    /\ calls < MaxCalls
    /\ Apply([Cur EXCEPT !.flightMode = m, !.calls = @ + 1,
                         !.ev = Event("setFlightMode", m)])

SetUpdateCallback ==
  /\ Idle
  /\ ~onUpdate
  /\ Apply([Begin("setUpdateCallback") EXCEPT !.onUpdate = TRUE])

SetResetCallback ==
  /\ Idle
  /\ ~onReset
  /\ Apply([Begin("setResetCallback") EXCEPT !.onReset = TRUE])

\* The browser starts an animation frame d ms after the last event: the
\* requests made so far become the frame's callbacks.
BeginFrame ==
  \E d \in FrameDeltas :
    /\ Idle
    /\ pending # <<>>
    /\ now + d <= MaxNow
    /\ Apply([Begin("frame") EXCEPT !.now = now + d, !.frameTime = now + d,
                                    !.queue = pending, !.pending = <<>>])

\* The browser calls the next callback of the frame: animate(frameTime).
\* A registered update callback may call back into the orchestrator.
Animate ==
  \E cb \in Callbacks :
    /\ queue # <<>>
    /\ Apply(animate([Begin("animate") EXCEPT !.queue = Tail(@)], cb))

\* The same, with an update callback that only reads what it is given.
AnimateQuiet ==
  /\ queue # <<>>
  /\ Apply(animate([Begin("animate") EXCEPT !.queue = Tail(@)], <<>>))

\* getDataHistory(): a copy of the history, in its order.
getDataHistory(s) == s.dataHistory

\* getCurrentData(): the last sample or null (a sequence of length 1 or 0).
getCurrentData(s) ==
  IF Len(s.dataHistory) = 0 THEN <<>>
  ELSE <<s.dataHistory[Len(s.dataHistory)]>>

\* The state the constructor leaves, but for the flight mode, the manual
\* inputs and the mixer probe.
InitRest ==
  /\ heap = [i \in {0} |-> getInitialState]
  /\ drone = 0
  /\ config = InitConfig
  /\ controllerConfig = InitControllerConfig
  /\ controllers = initializeControllers(InitControllerConfig)
  /\ setpoints = InitSetpoints
  /\ currentTime = 0
  /\ isRunning = FALSE
  /\ animationId = NULL
  /\ lastFrameTime = 0
  /\ dataHistory = <<>>
  /\ onUpdate = FALSE
  /\ onReset = FALSE
  /\ now = 0
  /\ frameTime = 0
  /\ pending = <<>>
  /\ queue = <<>>
  /\ recorded = <<>>
  /\ ev = NoEvent("constructor")
  /\ lastCall = "none"
  /\ calls = 0

\* The vehicle on the ground in position_hold with no waypoints, and a
\* script worker that has sent nothing.
NewCraft ==
  [position |-> Vec(0, 0, 0), flightMode |-> "position_hold",
   setpoints |-> Vec(0, 0, 2000), waypoints |-> <<>>, currentWaypointIndex |-> -1,
   op |-> "new",
   before |-> [position |-> Vec(0, 0, 0), flightMode |-> "position_hold",
               waypoints |-> <<>>, currentWaypointIndex |-> -1]]

NewChannel ==
  [commandId |-> 0, commandPromises |-> {}, toMain |-> <<>>, toWorker |-> <<>>,
   checks |-> {}, sent |-> <<>>, answered |-> <<>>, settled |-> <<>>,
   last |-> [op |-> "new", id |-> -1, commandPromises |-> {}, settled |-> <<>>]]

InitScript ==
  /\ craft = NewCraft
  /\ channel = NewChannel

\* A controller just constructed, no call made on it yet.
NewLoop(c) ==
  [c |-> c, before |-> c, op |-> "new", setpoint |-> 0, measurement |-> 0,
   dt |-> 0, returned |-> <<>>, streak |-> 0, n |-> 0]

NewCascade(c) ==
  [c |-> c, before |-> c, op |-> "new", setpoint |-> 0, position |-> 0,
   velocity |-> 0, dt |-> 0, flag |-> TRUE, returned |-> <<>>, n |-> 0]

\* A rigid body in a given state, not yet updated.
NewBody(state) ==
  [state |-> state, before |-> state, origin |-> state, op |-> "new",
   inputs |-> IdleMotors, dt |-> 0, n |-> 0]

\* The objects explored on their own, as the orchestrator's constructor
\* makes them.
InitUnits ==
  /\ mixer = [controlOutputs |-> ZeroOutputs, motorInputs |-> <<>>]
  /\ loop = NewLoop(NewPID(InitControllerConfig.altitude, 10000, 0))
  /\ cascade = NewCascade(NewCascaded(InitControllerConfig.position.x.outer,
                                      InitControllerConfig.position.x.inner,
                                      3000, 300))
  /\ body = NewBody(getInitialState)
  /\ InitScript

Init ==
  /\ InitRest
  /\ flightMode = "position_hold"
  /\ manualInputs = InitManualInputs
  /\ InitUnits

\* The orchestrator driven through its whole interface.
Next ==
  \/ Start
  \/ Pause
  \/ Reset
  \/ SetConfig
  \/ SetControllerConfig
  \/ SetSetpoints
  \/ SetManualInputs
  \/ SetFlightMode
  \/ BeginFrame
  \/ AnimateQuiet

Spec == Init /\ [][Next]_vars

\* The scheduling of the orchestrator, with observers that call back into it.
NextLifecycle ==
  \/ Start
  \/ Pause
  \/ Reset
  \/ SetConfig
  \/ SetUpdateCallback
  \/ SetResetCallback
  \/ BeginFrame
  \/ Animate

SpecLifecycle == Init /\ [][NextLifecycle]_vars

\* The mixer as a function: any flight mode and manual input vector the
\* setters can install, any control output vector within the controllers'
\* output ranges.
StickValues == {-1000, 0, 500}

ThrottleValues == {0, 500, 1000}

MixerManualInputs ==
  [pitch : StickValues, roll : StickValues, yaw : StickValues,
   throttle : ThrottleValues]

MixerControlOutputs ==
  [altitude : {0, 100, 10000}, roll : {-500, 0, 200}, pitch : {-500, 0, 200},
   yaw : {-300, 0, 100}, positionX : {0}, positionY : {0}]

InitMixer ==
  /\ InitRest
  /\ flightMode \in FlightMode
  /\ manualInputs \in MixerManualInputs
  /\ \E co \in MixerControlOutputs :
       mixer = [controlOutputs |-> co, motorInputs |-> <<>>]
  /\ loop = NewLoop(NewPID(InitControllerConfig.altitude, 10000, 0))
  /\ cascade = NewCascade(NewCascaded(InitControllerConfig.position.x.outer,
                                      InitControllerConfig.position.x.inner,
                                      3000, 300))
  /\ body = NewBody(getInitialState)
  /\ InitScript

Mix ==
  /\ mixer.motorInputs = <<>>
  /\ mixer' = [mixer EXCEPT !.motorInputs =
                 <<controlOutputsToMotorInputs(flightMode, manualInputs,
                                               mixer.controlOutputs)>>]
  /\ UNCHANGED <<heap, drone, config, controllerConfig, controllers, setpoints,
                 flightMode, manualInputs, currentTime, isRunning, animationId,
                 lastFrameTime, dataHistory, onUpdate, onReset, now, frameTime,
                 pending, queue, recorded, ev, lastCall, calls>>
  /\ UNCHANGED <<loop, cascade, body, script>>

NextMixer == Mix

SpecMixer == InitMixer /\ [][NextMixer]_vars

\* The orchestrator stepped on and on from the state its constructor leaves
\* (zero state, default gains, position_hold, setpoint z = 2 m), without
\* the frame clock.
Tracked ==
  /\ Abs(heap[drone].velocity.x) <= MaxSpeed
  /\ Abs(heap[drone].velocity.y) <= MaxSpeed
  /\ Abs(heap[drone].velocity.z) <= MaxSpeed

\* step()
HoverStep ==
  /\ Tracked
  /\ currentTime < FlightSteps * config.timestep
  /\ Apply(step(Begin("step"), <<>>))

\* step() from a state faster than MaxSpeed: the time advances, the values
\* the step computes are left open and the last computed state is kept.
HoverBeyond ==
  /\ ~Tracked
  /\ currentTime < FlightSteps * config.timestep
  /\ Apply([Begin("step") EXCEPT
             !.currentTime = advanceTime(Cur, config.timestep)])

NextHover ==
  \/ HoverStep
  \/ HoverBeyond

SpecHover == Init /\ [][NextHover]_vars

\* ------------------------------------------------------------------------
\* Waypoints and the scripted mission
\* (src/components/simulation/DroneSimulationInterface.tsx,
\*  the script worker in src/unnamed/part_004)
\* ------------------------------------------------------------------------

\* The waypoint methods the interface calls on the simulator are not in the
\* source; they follow section 4.5 of the specification.
completionTolerance == 200

Reached(position, target) ==
  Sqrt((position.x - target.x) * (position.x - target.x)
       + (position.y - target.y) * (position.y - target.y)
       + (position.z - target.z) * (position.z - target.z))
    <= completionTolerance

\* setWaypoints(list)
setWaypoints(c, list) ==
  [c EXCEPT !.waypoints = list,
            !.currentWaypointIndex = IF list = <<>> THEN -1 ELSE 0]

\* addWaypoint(waypoint)
addWaypoint(c, waypoint) ==
  [c EXCEPT !.waypoints = Append(@, waypoint),
            !.currentWaypointIndex = IF @ = -1 THEN 0 ELSE @]

\* removeWaypoint(id) that leaves the cursor where it was.
removeWaypoint_noClamp(c, id) ==
  [c EXCEPT !.waypoints = SelectSeq(@, LAMBDA w : w.id # id)]

\* removeWaypoint(id): the cursor is clamped into the shorter list.
removeWaypoint(c, id) ==
  LET clamp(list) ==
        [c EXCEPT !.waypoints = list,
                  !.currentWaypointIndex =
                     IF list = <<>> THEN -1
                     ELSE Max(0, Min(@, Len(list) - 1))]
  IN  clamp(SelectSeq(c.waypoints, LAMBDA w : w.id # id))

\* clearWaypoints()
clearWaypoints(c) == setWaypoints(c, <<>>)

\* The sequencer's part of a step that moves on from a reached waypoint
\* and stays in waypoint mode after the last one.
sequence_noModeChange(c) ==
  IF /\ c.flightMode = "waypoint"
     /\ 0 <= c.currentWaypointIndex
     /\ c.currentWaypointIndex < Len(c.waypoints)
     /\ Reached(c.position, c.waypoints[c.currentWaypointIndex + 1])
  THEN [c EXCEPT !.currentWaypointIndex = @ + 1]
  ELSE c

\* The sequencer's part of a step: the active waypoint is the position
\* setpoint; on arrival the cursor moves on, and past the last waypoint the
\* flight mode becomes position_hold.
sequence(c) ==
  IF /\ c.flightMode = "waypoint"
     /\ 0 <= c.currentWaypointIndex
     /\ c.currentWaypointIndex < Len(c.waypoints)
  THEN LET active == c.waypoints[c.currentWaypointIndex + 1]
           target == Vec(active.x, active.y, active.z)
       IN  IF Reached(c.position, target)
           THEN [c EXCEPT !.setpoints = target,
                          !.currentWaypointIndex = @ + 1,
                          !.flightMode =
                             IF c.currentWaypointIndex + 1 >= Len(c.waypoints)
                             THEN "position_hold" ELSE @]
           ELSE [c EXCEPT !.setpoints = target]
  ELSE c

\* What a call on the vehicle found.
Seen(c) ==
  [position |-> c.position, flightMode |-> c.flightMode,
   waypoints |-> c.waypoints, currentWaypointIndex |-> c.currentWaypointIndex]

Did(op, c) == [c EXCEPT !.op = op, !.before = Seen(craft)]

\* Where the vehicle can be, and the waypoints the operator can add.
Places ==
  {Vec(0, 0, 0), Vec(0, 0, 120), Vec(0, 0, 950), Vec(0, 0, 1850),
   Vec(3000, 0, 2000)}

WaypointPool ==
  {[id |-> "a", x |-> 0, y |-> 0, z |-> 2000],
   [id |-> "b", x |-> 3000, y |-> 0, z |-> 2000]}

WaypointIds == {"a", "b", "scripted"}

Ids(c) == {c.waypoints[i].id : i \in 1..Len(c.waypoints)}

\* A step of the simulator: the vehicle moves, then the sequencer looks.
CraftStep ==
  /\ \E p \in Places : craft' = Did("step", sequence([craft EXCEPT !.position = p]))
  /\ UNCHANGED <<simulator, mixer, loop, cascade, body, channel>>

\* handleAddWaypoint: the id is fresh (nanoid()).
AddWaypoint ==
  /\ \E w \in WaypointPool :
       /\ w.id \notin Ids(craft)
       /\ craft' = Did("addWaypoint", addWaypoint(craft, w))
  /\ UNCHANGED <<simulator, mixer, loop, cascade, body, channel>>

\* handleRemoveWaypoint
RemoveWaypoint ==
  /\ \E id \in WaypointIds :
       craft' = Did("removeWaypoint", removeWaypoint(craft, id))
  /\ UNCHANGED <<simulator, mixer, loop, cascade, body, channel>>

\* handleClearWaypoints
ClearWaypoints ==
  /\ craft' = Did("clearWaypoints", clearWaypoints(craft))
  /\ UNCHANGED <<simulator, mixer, loop, cascade, body, channel>>

\* handleFlightModeChange
ChangeFlightMode ==
  /\ \E m \in {"manual", "position_hold", "waypoint"} :
       craft' = Did("setFlightMode", [craft EXCEPT !.flightMode = m])
  /\ UNCHANGED <<simulator, mixer, loop, cascade, body, channel>>

NextWaypoints ==
  \/ CraftStep
  \/ AddWaypoint
  \/ RemoveWaypoint
  \/ ClearWaypoints
  \/ ChangeFlightMode

SpecWaypoints == Init /\ [][NextWaypoints]_vars

\* The requests a script makes through the drone API of the worker: the
\* payload of takeoff is { altitude }, of moveTo { x, y, z }, of land and
\* getTelemetry {}; a field a payload does not have is 0 here, mm.
Payload(x, y, z, altitude) == [x |-> x, y |-> y, z |-> z, altitude |-> altitude]

ScriptRequests ==
  {[type |-> "takeoff", payload |-> Payload(0, 0, 0, 2000)],
   [type |-> "land", payload |-> Payload(0, 0, 0, 0)],
   [type |-> "moveTo", payload |-> Payload(3000, 0, 2000, 0)],
   [type |-> "getTelemetry", payload |-> Payload(0, 0, 0, 0)]}

\* The worker's call on the channel, the pending set and settlements as it
\* stood when the call was made.
Called(op, id, c) ==
  [c EXCEPT !.last = [op |-> op, id |-> id,
                      commandPromises |-> channel.commandPromises,
                      settled |-> channel.settled]]

\* postCommand(type, payload): const id = commandId++; the promise goes into
\* commandPromises under id and the request is posted to the main thread.
postCommand(c, type, payload) ==
  [c EXCEPT !.commandId = @ + 1,
            !.commandPromises = @ \cup {c.commandId},
            !.toMain = Append(@, [type |-> type, payload |-> payload,
                                  id |-> c.commandId]),
            !.sent = Append(@, [type |-> type, payload |-> payload,
                                id |-> c.commandId])]

\* self.onmessage for a message that forgets nothing: the promise stays in
\* commandPromises after it is settled.
onmessage_keep(c, m) ==
  IF m.type = "commandResponse" /\ m.id \in c.commandPromises
  THEN [c EXCEPT !.settled =
          Append(@, [id |-> m.id,
                     how |-> IF m.error THEN "rejected" ELSE "resolved"])]
  ELSE c

\* self.onmessage, the commandResponse branch: a response whose id is in
\* commandPromises rejects or resolves that promise and deletes the entry.
onmessage(c, m) ==
  IF m.type = "commandResponse" /\ m.id \in c.commandPromises
  THEN [c EXCEPT !.commandPromises = @ \ {m.id},
                 !.settled =
                   Append(@, [id |-> m.id,
                              how |-> IF m.error THEN "rejected" ELSE "resolved"])]
  ELSE c

\* worker.postMessage({ type: 'commandResponse', id, payload }) by the main
\* thread; the payload is {} (no element) or the drone state (one element).
\* The history keeps where the vehicle was.
respond(c, request, payload) ==
  [c EXCEPT !.toWorker = Append(@, [type |-> "commandResponse",
                                    id |-> request.id, error |-> FALSE,
                                    payload |-> payload]),
            !.answered = Append(@, [id |-> request.id, type |-> request.type,
                                    request |-> request.payload,
                                    payload |-> payload,
                                    position |-> craft.position])]

\* The condition a setInterval callback of handleRunScript tests.
completed(request) ==
  CASE request.type = "moveTo" -> craft.flightMode # "waypoint"
    [] request.type = "takeoff" ->
         Abs(craft.position.z - request.payload.altitude) < 100
    [] request.type = "land" -> Abs(craft.position.z - 100) < 50

\* worker.onmessage of handleRunScript, what it does to the simulator.
command(c, request) ==
  CASE request.type = "moveTo" ->
         setWaypoints([c EXCEPT !.flightMode = "waypoint"],
                      <<[id |-> "scripted", x |-> request.payload.x,
                         y |-> request.payload.y, z |-> request.payload.z]>>)
    [] request.type = "takeoff" ->
         [c EXCEPT !.flightMode = "position_hold",
                   !.setpoints = Vec(c.position.x, c.position.y,
                                     request.payload.altitude)]
    [] request.type = "land" ->
         [c EXCEPT !.flightMode = "position_hold",
                   !.setpoints = Vec(c.position.x, c.position.y, 100)]
    [] request.type = "getTelemetry" -> c

\* The script calls the drone API; it need not await the call before.
PostCommand ==
  /\ channel.commandId < MaxRequests
  /\ \E r \in ScriptRequests :
       channel' = Called("postCommand", channel.commandId,
                         postCommand(channel, r.type, r.payload))
  /\ UNCHANGED <<simulator, mixer, loop, cascade, body, craft>>

\* worker.onmessage on the main thread takes the next request: telemetry is
\* answered at once, the other requests change mode and setpoints and start
\* an interval that tests for completion.
MainOnMessage ==
  /\ channel.toMain # <<>>
  /\ LET request == Head(channel.toMain)
         taken == [channel EXCEPT !.toMain = Tail(@)]
     IN  /\ craft' = command(craft, request)
         /\ channel' =
              Called("request", request.id,
                     IF request.type = "getTelemetry"
                     THEN respond(taken, request, <<craft.position>>)
                     ELSE [taken EXCEPT !.checks = @ \cup {request}])
  /\ UNCHANGED <<simulator, mixer, loop, cascade, body>>

\* An interval callback finds its condition true: clearInterval, and the
\* response is posted.  A callback that finds it false changes nothing.
CheckCompletion ==
  /\ \E request \in channel.checks :
       /\ completed(request)
       /\ channel' = Called("check", request.id,
                            respond([channel EXCEPT !.checks = @ \ {request}],
                                    request, <<>>))
  /\ UNCHANGED <<simulator, mixer, loop, cascade, body, craft>>

\* self.onmessage in the worker takes the next response.
WorkerOnMessage ==
  /\ channel.toWorker # <<>>
  /\ channel' = Called("commandResponse", Head(channel.toWorker).id,
                       onmessage([channel EXCEPT !.toWorker = Tail(@)],
                                 Head(channel.toWorker)))
  /\ UNCHANGED <<simulator, mixer, loop, cascade, body, craft>>

\* Where the vehicle can be while a script runs.
ScriptPlaces == {Vec(0, 0, 0), Vec(0, 0, 120), Vec(0, 0, 1850), Vec(3000, 0, 2000)}

\* A step of the simulator while a script runs: the vehicle moves, then the
\* sequencer looks.
Fly ==
  /\ \E p \in ScriptPlaces : craft' = sequence([craft EXCEPT !.position = p])
  /\ UNCHANGED <<simulator, mixer, loop, cascade, body, channel>>

\* handleFlightModeChange while a script runs.
SelectFlightMode ==
  /\ \E m \in {"manual", "position_hold", "waypoint"} :
       craft' = [craft EXCEPT !.flightMode = m]
  /\ UNCHANGED <<simulator, mixer, loop, cascade, body, channel>>

\* A script running against the simulator while the operator may change the
\* flight mode.
NextScript ==
  \/ PostCommand
  \/ MainOnMessage
  \/ CheckCompletion
  \/ WorkerOnMessage
  \/ Fly
  \/ SelectFlightMode

SpecScript == Init /\ [][NextScript]_vars

\* The worker on its own: the script posts commands and any commandResponse
\* may arrive, for any id, with or without an error.
Responses ==
  {[type |-> "commandResponse", id |-> i, error |-> e, payload |-> <<>>] :
     i \in 0..MaxRequests, e \in BOOLEAN}

WorkerEvent ==
  /\ \E m \in Responses :
       channel' = Called("commandResponse", m.id, onmessage(channel, m))
  /\ UNCHANGED <<simulator, mixer, loop, cascade, body, craft>>

NextChannel ==
  \/ PostCommand
  \/ WorkerEvent

SpecChannel == Init /\ [][NextChannel]_vars

\* A PIDController as an object: constructed with any of a few gain sets and
\* output ranges, then driven by any sequence of its methods.
PIDGainSets ==
  {Gains(200, 0, 0, TRUE), Gains(800, 50, 200, TRUE),
   Gains(100, 2000, 0, TRUE), Gains(600, 10, 150, FALSE)}

PIDLimits ==
  {[min |-> 0, max |-> 10000], [min |-> -500, max |-> 500],
   [min |-> 200, max |-> 900]}

LoopSetpoints == {-2000, 1000}

LoopMeasurements == {0, 500}

LoopTimesteps == {10, 20}

InitPID ==
  /\ InitRest
  /\ flightMode = "position_hold"
  /\ manualInputs = InitManualInputs
  /\ mixer = [controlOutputs |-> ZeroOutputs, motorInputs |-> <<>>]
  /\ \E g \in PIDGainSets, l \in PIDLimits : loop = NewLoop(NewPID(g, l.max, l.min))
  /\ cascade = NewCascade(NewCascaded(InitControllerConfig.position.x.outer,
                                      InitControllerConfig.position.x.inner,
                                      3000, 300))
  /\ body = NewBody(getInitialState)
  /\ InitScript

\* One call on the controller: what it was, what it became, what it
\* returned.  streak counts the updates made in a row with one error and one
\* timestep.
LoopCall(op, c, returned, setpoint, measurement, dt) ==
  /\ loop.n < MaxOps
  /\ loop' = [c |-> c, before |-> loop.c, op |-> op, setpoint |-> setpoint,
              measurement |-> measurement, dt |-> dt, returned |-> returned,
              streak |-> IF op # "update" THEN 0
                         ELSE IF /\ loop.op = "update"
                                 /\ loop.setpoint - loop.measurement
                                      = setpoint - measurement
                                 /\ loop.dt = dt
                              THEN loop.streak + 1
                              ELSE 1,
              n |-> loop.n + 1]
  /\ UNCHANGED <<simulator, mixer, cascade, body, script>>

LoopUpdate ==
  \E sp \in LoopSetpoints, m \in LoopMeasurements, dt \in LoopTimesteps :
    LoopCall("update", PIDUpdate(loop.c, sp, m, dt),
             <<PIDReturn(loop.c, sp, m, dt)>>, sp, m, dt)

LoopSetGains ==
  \E g \in PIDGainSets :
    LoopCall("setGains", PIDSetGains(loop.c, g), <<>>, 0, 0, 0)

LoopSetEnabled ==
  \E e \in BOOLEAN :
    LoopCall("setEnabled", PIDSetEnabled(loop.c, e), <<>>, 0, 0, 0)

LoopReset == LoopCall("reset", PIDReset(loop.c), <<>>, 0, 0, 0)

NextPID ==
  \/ LoopUpdate
  \/ LoopSetGains
  \/ LoopSetEnabled
  \/ LoopReset

SpecPID == InitPID /\ [][NextPID]_vars

\* A CascadedPIDController as an object: constructed with any of a few gains
\* and limits, then driven by any sequence of its methods.
CascadeGainSets == {LoopGains(100, 0, 0), LoopGains(30, 200, 8)}

CascadeLimits ==
  {[maxVelocity |-> 3000, maxInnerSetpoint |-> 300],
   [maxVelocity |-> 1000, maxInnerSetpoint |-> 500]}

CascadeSetpoints == {-5000, 2000}

CascadeVelocities == {0, 1000}

InitCascade ==
  /\ InitRest
  /\ flightMode = "position_hold"
  /\ manualInputs = InitManualInputs
  /\ mixer = [controlOutputs |-> ZeroOutputs, motorInputs |-> <<>>]
  /\ loop = NewLoop(NewPID(InitControllerConfig.altitude, 10000, 0))
  /\ \E o \in CascadeGainSets, i \in CascadeGainSets, l \in CascadeLimits :
       cascade = NewCascade(NewCascaded(o, i, l.maxVelocity, l.maxInnerSetpoint))
  /\ body = NewBody(getInitialState)
  /\ InitScript

\* One call on the cascade: what it was, what it became, what it returned.
CascadeCall(op, c, returned, setpoint, velocity, dt, flag) ==
  /\ cascade.n < MaxOps
  /\ cascade' = [c |-> c, before |-> cascade.c, op |-> op,
                 setpoint |-> setpoint, position |-> 0, velocity |-> velocity,
                 dt |-> dt, flag |-> flag, returned |-> returned,
                 n |-> cascade.n + 1]
  /\ UNCHANGED <<simulator, mixer, loop, body, script>>

CascadeUpdate ==
  \E sp \in CascadeSetpoints, v \in CascadeVelocities, dt \in LoopTimesteps :
    CascadeCall("update", CascadedUpdate(cascade.c, sp, 0, v, dt),
                <<CascadedReturn(cascade.c, sp, 0, v, dt)>>, sp, v, dt, TRUE)

CascadeReset ==
  CascadeCall("reset", CascadedReset(cascade.c), <<>>, 0, 0, 0, TRUE)

CascadeSetOuterGains ==
  \E g \in CascadeGainSets :
    CascadeCall("setOuterGains", CascadedSetOuterGains(cascade.c, g), <<>>,
                0, 0, 0, TRUE)

CascadeSetInnerGains ==
  \E g \in CascadeGainSets :
    CascadeCall("setInnerGains", CascadedSetInnerGains(cascade.c, g), <<>>,
                0, 0, 0, TRUE)

CascadeSetEnabled ==
  \E e \in BOOLEAN :
    CascadeCall("setEnabled", CascadedSetEnabled(cascade.c, e), <<>>,
                0, 0, 0, e)

NextCascade ==
  \/ CascadeUpdate
  \/ CascadeReset
  \/ CascadeSetOuterGains
  \/ CascadeSetInnerGains
  \/ CascadeSetEnabled

SpecCascade == InitCascade /\ [][NextCascade]_vars

\* A DroneModel as an object: put in any of a few states on or above the
\* ground (the state the constructor gives among them), then updated with
\* any sequence of motor commands and timesteps.
Motors(m1, m2, m3, m4) ==
  [motor1 |-> m1, motor2 |-> m2, motor3 |-> m3, motor4 |-> m4]

BodyCommands ==
  {Motors(0, 0, 0, 0), Motors(1000, 1000, 1000, 1000),
   Motors(1000, 1000, 0, 0), Motors(1000, 0, 1000, 0)}

BodyTimesteps == {10, 100}

PriorStates ==
  {[getInitialState EXCEPT !.position.z = z, !.velocity.x = vx,
                           !.velocity.z = vz, !.orientation.x = roll] :
     z \in {0, 50, 2000}, vx \in {0, 2000}, vz \in {-3000, 0, 1000},
     roll \in {0, 3000}}

InitBody ==
  /\ InitRest
  /\ flightMode = "position_hold"
  /\ manualInputs = InitManualInputs
  /\ mixer = [controlOutputs |-> ZeroOutputs, motorInputs |-> <<>>]
  /\ loop = NewLoop(NewPID(InitControllerConfig.altitude, 10000, 0))
  /\ cascade = NewCascade(NewCascaded(InitControllerConfig.position.x.outer,
                                      InitControllerConfig.position.x.inner,
                                      3000, 300))
  /\ \E state \in PriorStates : body = NewBody(state)
  /\ InitScript

\* update(motorInputs, dt)
BodyUpdate ==
  \E inputs \in BodyCommands, dt \in BodyTimesteps :
    /\ body.n < MaxOps
    /\ body' = [state |-> DroneModelUpdate(body.state, inputs, dt),
                before |-> body.state, origin |-> body.origin,
                op |-> "update", inputs |-> inputs, dt |-> dt, n |-> body.n + 1]
    /\ UNCHANGED <<simulator, mixer, loop, cascade, script>>

\* reset()
BodyReset ==
  /\ body.n < MaxOps
  /\ body.n > 0
  /\ body' = [NewBody(getInitialState) EXCEPT !.op = "reset", !.before = body.state,
                                              !.n = body.n + 1]
  /\ UNCHANGED <<simulator, mixer, loop, cascade, script>>

NextBody ==
  \/ BodyUpdate
  \/ BodyReset

SpecBody == InitBody /\ [][NextBody]_vars

\* ------------------------------------------------------------------------
\* Properties
\* ------------------------------------------------------------------------

Last(q) == q[Len(q)]

\* The step whose sample is due: the wall-clock condition of animate().
Due(delta, cfg) == delta * cfg.realTimeMultiplier >= cfg.timestep * 10

\* C1: once pause() (or reset(), which calls it) has returned, the
\* orchestrator is not running, and while it is not running no handler runs
\* a step: no sample is appended, simulated time does not advance and the
\* update callback is not invoked, until start() is called.
C1_PauseStopsStepping ==
  [][/\ (lastCall' \in {"pause", "reset"} => ~isRunning')
     /\ (~isRunning =>
           /\ ev'.steps = 0
           /\ ev'.updates = 0
           /\ currentTime' <= currentTime
           /\ Len(dataHistory') <= Len(dataHistory))]_vars

\* A frame callback that was requested before pause() ran after it, at a
\* time when a step was due, and did not step.
C1_Witness ==
  /\ ev.op = "animate"
  /\ lastCall = "pause"
  /\ ~isRunning
  /\ ev.steps = 0
  /\ Due(frameTime - lastFrameTime, config)

\* C2: one call of animate() runs at most one step(), and runs it only if
\* the orchestrator is running and the wall time since the last stepped tick
\* is at least timestep * 1000 / realTimeMultiplier.
C2_AtMostOneStepPerTick ==
  [][/\ ev'.steps <= 1
     /\ (ev'.steps >= 1 =>
           /\ ev'.op = "animate"
           /\ isRunning
           /\ Due(frameTime - lastFrameTime, config))]_vars

\* A tick that came two periods or more after the last stepped one ran one
\* step.
C2_Witness ==
  /\ ev.op = "animate"
  /\ ev.steps = 1
  /\ ev.deltaTime * config.realTimeMultiplier >= 2 * config.timestep * 10

TimesIncrease(h) ==
  \A i \in 1..Len(h) : \A j \in 1..Len(h) : i < j => h[i].time < h[j].time

\* C3: a step appends one sample, stamped with the simulated time before the
\* step, and then advances simulated time by config.timestep whatever the
\* wall-clock delta; the times of the history increase strictly.
C3_FixedTimestep ==
  /\ [](/\ TimesIncrease(dataHistory)
        /\ (dataHistory # <<>> => Last(dataHistory).time < currentTime))
  /\ [][ev'.steps = 1 =>
          /\ Len(ev'.appended) = 1
          /\ ev'.appended[1].time = currentTime
          /\ Last(dataHistory') = ev'.appended[1]
          /\ Len(dataHistory') = Min(Len(dataHistory) + 1, maxHistoryLength)
          /\ currentTime' = currentTime + config.timestep]_vars

\* Two samples are in the history and the last step ran on a tick whose
\* wall-clock delta differs from the timestep.
C3_Witness ==
  /\ ev.steps = 1
  /\ Len(dataHistory) >= 2
  /\ ev.deltaTime # config.timestep

\* C4: a registered update callback is invoked once in every step, with the
\* sample that step appended, and in no other handler; a registered reset
\* callback is invoked once in every reset().
C4_CallbackPerStep ==
  /\ ev.updates = (IF onUpdate THEN ev.steps ELSE 0)
  /\ ev.delivered = (IF onUpdate THEN ev.appended ELSE <<>>)
  /\ (ev.op # "animate" => ev.updates = 0)
  /\ ev.notified = (IF onReset THEN ev.resets ELSE 0)

\* A step invoked the update callback, which called reset(), which invoked
\* the reset callback.
C4_Witness ==
  /\ ev.op = "animate"
  /\ ev.updates = 1
  /\ ev.resets = 1
  /\ ev.notified = 1

IsZeroVec(v) == v.x = 0 /\ v.y = 0 /\ v.z = 0

IsZeroPID(c) ==
  /\ c.state.error = 0
  /\ c.state.integral = 0
  /\ c.state.derivative = 0
  /\ c.state.lastError = 0
  /\ c.state.output = 0

ZeroFlight ==
  /\ IsZeroVec(heap[drone].position)
  /\ IsZeroVec(heap[drone].velocity)
  /\ IsZeroVec(heap[drone].orientation)
  /\ IsZeroVec(heap[drone].angularVelocity)
  /\ currentTime = 0
  /\ dataHistory = <<>>
  /\ IsZeroPID(controllers.altitudeController)
  /\ IsZeroPID(controllers.rollController)
  /\ IsZeroPID(controllers.pitchController)
  /\ IsZeroPID(controllers.yawController)
  /\ IsZeroPID(controllers.positionXController.outerController)
  /\ IsZeroPID(controllers.positionXController.innerController)
  /\ IsZeroPID(controllers.positionYController.outerController)
  /\ IsZeroPID(controllers.positionYController.innerController)

\* C5: after reset(), and until start() or pause() is called, the
\* orchestrator is not running, the kinematic state is zero, simulated time
\* is 0, the history is empty and every controller's state is zero; when
\* reset() returns to its caller no frame request is recorded; no step runs
\* until start(); a second reset() changes nothing.
C5_ResetRestoresZero ==
  /\ [](/\ (lastCall = "reset" => ~isRunning /\ ZeroFlight)
        /\ (ev.op = "reset" => animationId = NULL))
  /\ [][/\ (lastCall = "reset" => ev'.steps = 0)
        /\ (ev.op = "reset" /\ ev'.op = "reset" =>
              UNCHANGED <<heap, drone, config, controllerConfig, controllers,
                          setpoints, flightMode, manualInputs, currentTime,
                          isRunning, animationId, lastFrameTime, dataHistory,
                          onUpdate, onReset, pending, queue>>)]_vars

\* reset() was called with samples in the history.
C5_Witness ==
  /\ ev.op = "reset"
  /\ ev.dropped > 0
  /\ lastFrameTime > 0

\* C6: the history never holds more than maxHistoryLength samples; a step
\* appends its sample at the end and, when the history was full, removes the
\* oldest sample and no other; getDataHistory() is the history oldest first
\* and getCurrentData() its newest sample, or null when it is empty.
C6_BoundedFifo ==
  /\ [](/\ Len(getDataHistory(Cur)) <= maxHistoryLength
        /\ TimesIncrease(getDataHistory(Cur))
        /\ (dataHistory = <<>> => getCurrentData(Cur) = <<>>)
        /\ (ev.steps = 1 => getCurrentData(Cur) = ev.appended))
  /\ [][ev'.steps = 1 =>
          dataHistory' =
            IF Len(dataHistory) < maxHistoryLength
            THEN Append(dataHistory, ev'.appended[1])
            ELSE Append(Tail(dataHistory), ev'.appended[1])]_vars

\* A step on a full history evicted the oldest sample.
C6_Witness ==
  /\ ev.steps = 1
  /\ Len(dataHistory) = maxHistoryLength
  /\ dataHistory # <<>>
  /\ dataHistory[1].time > 0

\* C7: the state recorded in a sample of the history keeps the values it
\* had when the sample was appended.
C7_SnapshotsImmutable ==
  \A i \in 1..Len(dataHistory) : Deref(Cur, dataHistory[i].state) = recorded[i]

\* C8: getFlightMode() is m after setFlightMode(m), and no other handler
\* changes the flight mode.
C8_ModeOnlyBySetFlightMode ==
  /\ [](ev.op = "setFlightMode" => flightMode = ev.arg)
  /\ [][flightMode' # flightMode => ev'.op = "setFlightMode"]_vars

\* reset() was called after steps that ran in waypoint mode, and the mode
\* is still waypoint.
C8_Witness ==
  /\ ev.op = "reset"
  /\ ev.dropped > 0
  /\ flightMode = "waypoint"

MotorsInRange(m) ==
  /\ 0 <= m.motor1 /\ m.motor1 <= 1000
  /\ 0 <= m.motor2 /\ m.motor2 <= 1000
  /\ 0 <= m.motor3 /\ m.motor3 <= 1000
  /\ 0 <= m.motor4 /\ m.motor4 <= 1000

\* C9: every motor command a step recorded has its four components in
\* [0, 1].
C9_MotorCommandsNormalized ==
  /\ \A i \in 1..Len(dataHistory) : MotorsInRange(dataHistory[i].motorInputs)
  /\ \A i \in 1..Len(ev.appended) : MotorsInRange(ev.appended[i].motorInputs)

\* A step whose altitude output asked for more than full thrust recorded a
\* command clamped to 1.
C9_Witness ==
  \E i \in 1..Len(dataHistory) :
    /\ dataHistory[i].controlOutputs.altitude > 350
    /\ dataHistory[i].motorInputs.motor1 = 1000

\* The reference mixer: base thrust b and axis inputs r, p, y per mode, then
\* the X configuration.
RefInputs(mode, manual, co) ==
  IF mode = "manual"
  THEN [b |-> manual.throttle, r |-> TDiv(3 * manual.roll, 10),
        p |-> TDiv(3 * manual.pitch, 10), y |-> TDiv(3 * manual.yaw, 10)]
  ELSE IF mode = "stabilized"
  THEN [b |-> manual.throttle, r |-> co.roll + TDiv(2 * manual.roll, 10),
        p |-> co.pitch + TDiv(2 * manual.pitch, 10),
        y |-> co.yaw + TDiv(2 * manual.yaw, 10)]
  ELSE IF mode = "altitude_hold"
  THEN [b |-> 650 + co.altitude, r |-> TDiv(2 * manual.roll, 10),
        p |-> TDiv(2 * manual.pitch, 10),
        y |-> co.yaw + TDiv(2 * manual.yaw, 10)]
  ELSE [b |-> 650 + co.altitude, r |-> co.roll, p |-> co.pitch, y |-> co.yaw]

RefClamp(v) == IF v < 0 THEN 0 ELSE IF v > 1000 THEN 1000 ELSE v

RefMixer(mode, manual, co) ==
  LET in == RefInputs(mode, manual, co)
  IN  [motor1 |-> RefClamp(in.b + in.p + in.y - in.r),
       motor2 |-> RefClamp(in.b + in.p - in.y + in.r),
       motor3 |-> RefClamp(in.b - in.p + in.y - in.r),
       motor4 |-> RefClamp(in.b - in.p - in.y + in.r)]

\* C10: in every mode the mixer's motor commands are those of the reference
\* X-configuration mixer.
C10_MixerMatchesReference ==
  \A i \in 1..Len(mixer.motorInputs) :
    mixer.motorInputs[i] = RefMixer(flightMode, manualInputs, mixer.controlOutputs)

\* The mixer ran in altitude_hold mode with sticks and outputs on every
\* axis, and saturated no motor.
C10_Witness ==
  /\ Len(mixer.motorInputs) = 1
  /\ flightMode = "altitude_hold"
  /\ manualInputs.roll # 0
  /\ manualInputs.pitch # 0
  /\ manualInputs.yaw # 0
  /\ mixer.controlOutputs.yaw # 0
  /\ \A k \in {"motor1", "motor2", "motor3", "motor4"} :
       mixer.motorInputs[1][k] > 0 /\ mixer.motorInputs[1][k] < 1000

Sign(a) == IF a > 0 THEN 1 ELSE IF a < 0 THEN -1 ELSE 0

\* No motor command of m sits on a limit of [0, 1].
Unsaturated(m) ==
  \A k \in {"motor1", "motor2", "motor3", "motor4"} : m[k] > 0 /\ m[k] < 1000

\* The torque calculateTorques() derives from a mixed command has, on the
\* one axis the mixer was driven on, the sign of that axis input.
TorqueFollows(in, tau) ==
  /\ (in.rollInput # 0 /\ in.pitchInput = 0 /\ in.yawInput = 0)
       => Sign(tau.x) = Sign(in.rollInput)
  /\ (in.pitchInput # 0 /\ in.rollInput = 0 /\ in.yawInput = 0)
       => Sign(tau.y) = Sign(in.pitchInput)
  /\ (in.yawInput # 0 /\ in.rollInput = 0 /\ in.pitchInput = 0)
       => Sign(tau.z) = Sign(in.yawInput)

\* C11: with no motor saturated, a pure roll, pitch or yaw input to the
\* mixer gives motor commands whose torque about that axis, by the rigid
\* body's torque equation, is nonzero and has the sign of the input.
C11_MixerTorqueSigns ==
  \A i \in 1..Len(mixer.motorInputs) :
    Unsaturated(mixer.motorInputs[i])
      => TorqueFollows(modeInputs(flightMode, manualInputs, mixer.controlOutputs),
                       calculateTorques(mixer.motorInputs[i]))

\* The command the manual mode is to produce from a manual input vector:
\* throttle as base thrust, each stick times 0.3, the X configuration.
ManualCommand(manual) ==
  [motor1 |-> RefClamp(manual.throttle + TDiv(3 * manual.pitch, 10)
                       + TDiv(3 * manual.yaw, 10) - TDiv(3 * manual.roll, 10)),
   motor2 |-> RefClamp(manual.throttle + TDiv(3 * manual.pitch, 10)
                       - TDiv(3 * manual.yaw, 10) + TDiv(3 * manual.roll, 10)),
   motor3 |-> RefClamp(manual.throttle - TDiv(3 * manual.pitch, 10)
                       + TDiv(3 * manual.yaw, 10) - TDiv(3 * manual.roll, 10)),
   motor4 |-> RefClamp(manual.throttle - TDiv(3 * manual.pitch, 10)
                       - TDiv(3 * manual.yaw, 10) + TDiv(3 * manual.roll, 10))]

\* States that differ from s only in controller gains and accumulators, in
\* setpoints, in enableControl or in the vehicle state.
ManualVariants(s) ==
  {[s EXCEPT !.config.enableControl = ~@],
   [s EXCEPT !.setpoints = [position |-> Vec(3000, -2000, 500),
                            attitude |-> Vec(0, 0, 1000)]],
   [s EXCEPT !.controllers =
      initializeControllers(
        [InitControllerConfig EXCEPT !.altitude = Gains(100, 900, 0, TRUE),
                                     !.attitude.roll = Gains(50, 0, 700, TRUE)])],
   [s EXCEPT !.heap = [@ EXCEPT ![s.drone] =
      [position        |-> Vec(500, -500, 4000),
       velocity        |-> Vec(100, 0, -300),
       orientation     |-> Vec(200, -100, 50),
       angularVelocity |-> Vec(0, 10, 0)]]]}

\* A running orchestrator whose animation frame is about to be called.
Ticking == isRunning /\ queue # <<>>

\* The motor command of the sample a step appends when run in state s.
StepCommand(s) == step(s, <<>>).ev.appended[1].motorInputs

ManualSample(d) ==
  d.flightMode = "manual"
    => /\ d.motorInputs = ManualCommand(d.manualInputs)
       /\ d.controlOutputs = ZeroOutputs

\* C12: in manual mode the motor command of a step is the manual input
\* vector mixed with authority 0.3 and nothing else: no controller output
\* enters it, and on every tick a step run from a state that differs in
\* gains, setpoints, enableControl or vehicle state gives the same command.
C12_ManualIgnoresControl ==
  /\ \A i \in 1..Len(dataHistory) : ManualSample(dataHistory[i])
  /\ \A i \in 1..Len(ev.appended) : ManualSample(ev.appended[i])
  /\ (Ticking /\ flightMode = "manual")
       => \A v \in ManualVariants(Cur) : StepCommand(v) = StepCommand(Cur)

\* A step ran in manual mode, on a vehicle that earlier steps had moved,
\* with sticks off centre.
C12_Witness ==
  /\ ev.steps = 1
  /\ flightMode = "manual"
  /\ Len(dataHistory) >= 2
  /\ recorded[Len(recorded) - 1] # getInitialState
  /\ Last(dataHistory).manualInputs.roll # 0
  /\ Last(dataHistory).motorInputs # IdleMotors

HoldModes == {"position_hold", "waypoint"}

\* The command the position_hold mode is to produce from the control
\* outputs: 0.65 plus the altitude output as base thrust, the attitude
\* outputs as axis inputs, the X configuration.
PidCommand(co) ==
  [motor1 |-> RefClamp(650 + co.altitude + co.pitch + co.yaw - co.roll),
   motor2 |-> RefClamp(650 + co.altitude + co.pitch - co.yaw + co.roll),
   motor3 |-> RefClamp(650 + co.altitude - co.pitch + co.yaw - co.roll),
   motor4 |-> RefClamp(650 + co.altitude - co.pitch - co.yaw + co.roll)]

\* States that differ from s only in the manual input vector.
StickVariants(s) ==
  {[s EXCEPT !.manualInputs = [throttle |-> 0, roll |-> 1000,
                               pitch |-> -500, yaw |-> 1000]],
   [s EXCEPT !.manualInputs = [throttle |-> 1000, roll |-> -1000,
                               pitch |-> 1000, yaw |-> -300]]}

\* What a step leaves behind, but for the manual input vector: the vehicle
\* state, the controllers, the simulated time and the sample.
StepEffect(s) ==
  LET effect(t) ==
        [heap |-> t.heap, controllers |-> t.controllers,
         currentTime |-> t.currentTime,
         sample |-> [t.ev.appended[1] EXCEPT !.manualInputs = <<>>]]
  IN  effect(step(s, <<>>))

\* C13: in position_hold and waypoint mode the motor command of a step is
\* made of the control outputs alone (0.65 + altitude output as base thrust,
\* the attitude outputs on the axes); on every tick a step run from a state
\* that differs only in the manual input vector gives the same command and
\* the same vehicle state; and the waypoint mode mixes as position_hold
\* does.
C13_HoldIgnoresManual ==
  /\ \A i \in 1..Len(ev.appended) :
       ev.appended[i].flightMode \in HoldModes
         => ev.appended[i].motorInputs =
              (IF config.enableControl
               THEN PidCommand(ev.appended[i].controlOutputs)
               ELSE IdleMotors)
  /\ (Ticking /\ flightMode \in HoldModes)
       => /\ \A v \in StickVariants(Cur) : StepEffect(v) = StepEffect(Cur)
          /\ StepCommand([Cur EXCEPT !.flightMode = "waypoint"])
               = StepCommand([Cur EXCEPT !.flightMode = "position_hold"])

\* A controlled step ran in waypoint mode with the sticks off centre and
\* the altitude loop asking for thrust.
C13_Witness ==
  /\ ev.steps = 1
  /\ flightMode = "waypoint"
  /\ config.enableControl
  /\ manualInputs.roll # 0
  /\ manualInputs.throttle # 500
  /\ Last(dataHistory).controlOutputs.altitude > 0

\* ------------------------------------------------------------------------
\* C14: after any sequence of update/setGains/setEnabled/reset calls, an
\* update() of an enabled PIDController returns, and stores as its output,
\* a value within [outputMin, outputMax]; with ki = kd = 0 and kp > 0 that
\* value is kp * error limited to the range.
\* ------------------------------------------------------------------------

\* The call just made was an update() that found the controller enabled.
EnabledUpdate == loop.op = "update" /\ loop.before.enabled

WithinLimits(c, x) == c.outputMin <= x /\ x <= c.outputMax

C14_OutputWithinLimits ==
  EnabledUpdate =>
    /\ loop.returned = <<loop.c.state.output>>
    /\ WithinLimits(loop.c, loop.c.state.output)
    /\ (loop.c.gains.ki = 0 /\ loop.c.gains.kd = 0 /\ loop.c.gains.kp > 0)
         => LET p == TDiv(loop.c.gains.kp * (loop.setpoint - loop.measurement), 100)
            IN  loop.c.state.output
                  = (IF p > loop.c.outputMax THEN loop.c.outputMax
                     ELSE IF p < loop.c.outputMin THEN loop.c.outputMin
                     ELSE p)

\* An update on a controller that has accumulated an integral, whose sum of
\* terms fell below a negative lower limit.
C14_Witness ==
  /\ EnabledUpdate
  /\ loop.n >= 3
  /\ loop.before.state.integral # 0
  /\ loop.c.gains.ki > 0
  /\ loop.c.outputMin < 0
  /\ loop.c.state.output = loop.c.outputMin

\* ------------------------------------------------------------------------
\* C15: an update of an enabled PIDController whose output is saturated at
\* outputMax with a positive error, or at outputMin with a negative error,
\* leaves the integral as it was before the update; and under a constant
\* error and timestep, once an update has been saturated that way without
\* help from the derivative term, the next one is too, so the integral has
\* stopped changing.
\* ------------------------------------------------------------------------

\* The output the controller holds is at the limit the error pushes toward.
SaturatedToward(c, error) ==
  \/ (c.state.output >= c.outputMax /\ error > 0)
  \/ (c.state.output <= c.outputMin /\ error < 0)

LoopError == loop.setpoint - loop.measurement

\* The derivative term of the controller's last update did not push the
\* output toward the limit the error pushes toward.
NoDerivativeKick(c, error) ==
  \/ (error > 0 /\ c.gains.kd * c.state.derivative <= 0)
  \/ (error < 0 /\ c.gains.kd * c.state.derivative >= 0)

C15_AntiWindup ==
  EnabledUpdate =>
    /\ SaturatedToward(loop.c, LoopError)
         => loop.c.state.integral = loop.before.state.integral
    /\ ~SaturatedToward(loop.c, LoopError)
         => loop.c.state.integral = loop.before.state.integral + LoopError * loop.dt
    /\ ( /\ loop.streak >= 2
         /\ SaturatedToward(loop.before, LoopError)
         /\ NoDerivativeKick(loop.before, LoopError) )
         => /\ SaturatedToward(loop.c, LoopError)
            /\ loop.c.state.integral = loop.before.state.integral

\* Three updates with one positive error: the first accumulates, the second
\* reaches the upper limit, the third finds the integral where the first
\* left it.
C15_Witness ==
  /\ EnabledUpdate
  /\ loop.streak >= 3
  /\ loop.c.gains.ki > 0
  /\ LoopError > 0
  /\ SaturatedToward(loop.before, LoopError)
  /\ SaturatedToward(loop.c, LoopError)
  /\ loop.c.state.integral > 0
  /\ loop.c.state.integral = loop.before.state.integral

\* ------------------------------------------------------------------------
\* C16: whenever a PIDController's enabled flag is false, its state is the
\* all-zero reset state, and an update() made on it returns 0 and leaves the
\* controller as it was.
\* ------------------------------------------------------------------------

C16_DisabledIsReset ==
  /\ ~loop.c.enabled => loop.c.state = ZeroPIDState
  /\ (loop.op = "update" /\ ~loop.before.enabled)
       => loop.returned = <<0>> /\ loop.c = loop.before

\* ------------------------------------------------------------------------
\* C17: setControllerConfig hands the merged configuration's gains to the
\* live controllers; every controller that was enabled and stays enabled
\* keeps its error, integral, derivative, lastError and output; and each
\* update a step makes computes its output from the gains the configuration
\* holds at that moment.
\* ------------------------------------------------------------------------

\* The four single-loop controllers and the two loops of each cascade, with
\* the gains the configuration gives each of them.
LiveLoops(ctl) ==
  <<ctl.altitudeController, ctl.rollController, ctl.pitchController,
    ctl.yawController,
    ctl.positionXController.outerController,
    ctl.positionXController.innerController,
    ctl.positionYController.outerController,
    ctl.positionYController.innerController>>

ConfiguredGains(cc) ==
  <<cc.altitude, cc.attitude.roll, cc.attitude.pitch, cc.attitude.yaw,
    WithEnabled(cc.position.x.outer), WithEnabled(cc.position.x.inner),
    WithEnabled(cc.position.y.outer), WithEnabled(cc.position.y.inner)>>

\* Whether the configuration enables the controller a loop belongs to.
ConfiguredEnabled(cc) ==
  <<cc.altitude.enabled, cc.attitude.roll.enabled, cc.attitude.pitch.enabled,
    cc.attitude.yaw.enabled,
    cc.position.x.enabled, cc.position.x.enabled,
    cc.position.y.enabled, cc.position.y.enabled>>

\* The output an update leaves, computed from given gains, the integral the
\* controller held before the update and the error and derivative it stored.
OutputFrom(gains, was, is, dt) ==
  clampOutput(is,
              TDiv(gains.kp * is.state.error, 100)
                + TDiv(gains.ki * (was.state.integral + is.state.error * dt),
                       100000)
                + TDiv(gains.kd * is.state.derivative, 100))

C17_GainChangeKeepsState ==
  /\ [][ev'.op = "setControllerConfig" =>
          \A i \in 1..8 :
            /\ LiveLoops(controllers')[i].gains
                 = ConfiguredGains(controllerConfig')[i]
            /\ (LiveLoops(controllers)[i].enabled
                  /\ ConfiguredEnabled(controllerConfig')[i])
                 => /\ LiveLoops(controllers')[i].enabled
                    /\ LiveLoops(controllers')[i].state
                         = LiveLoops(controllers)[i].state]_vars
  /\ [][(ev'.steps > 0 /\ config.enableControl /\ flightMode # "manual") =>
          \A i \in 1..4 :
            LiveLoops(controllers)[i].enabled
              => LiveLoops(controllers')[i].state.output
                   = OutputFrom(ConfiguredGains(controllerConfig)[i],
                                LiveLoops(controllers)[i],
                                LiveLoops(controllers')[i],
                                config.timestep)]_vars

\* setControllerConfig has just replaced the altitude gains of a controller
\* that holds the integral and output of an earlier step.
C17_Witness ==
  /\ ev.op = "setControllerConfig"
  /\ controllers.altitudeController.enabled
  /\ controllers.altitudeController.gains = Gains(400, 100, 100, TRUE)
  /\ controllers.altitudeController.state.integral # 0
  /\ controllers.altitudeController.state.output # 0
  /\ controllers.rollController.gains = Gains(1200, 100, 0, TRUE)

\* The same on a controller on its own: setGains() changes the gains and the
\* enabled flag and nothing else.
SetGainsKeepsState ==
  loop.op = "setGains" =>
    /\ loop.c.gains \in PIDGainSets
    /\ loop.c.enabled = loop.c.gains.enabled
    /\ loop.c.state = loop.before.state
    /\ loop.c.outputMin = loop.before.outputMin
    /\ loop.c.outputMax = loop.before.outputMax

\* A second or later step has run on gains that setControllerConfig had put
\* in place.
SteppedOnNewGains ==
  /\ ev.steps > 0
  /\ Len(dataHistory) >= 2
  /\ controllers.altitudeController.gains = Gains(400, 100, 100, TRUE)
  /\ controllers.altitudeController.state.output # 0

\* ------------------------------------------------------------------------
\* C18: an update of an enabled CascadedPIDController is the outer loop's
\* update on (positionSetpoint, position), whose output lies within the
\* velocity limit, followed by the inner loop's update with that output as
\* setpoint and the velocity as measurement; it returns the inner loop's
\* output, within the inner setpoint limit.  reset() leaves both loops in
\* the all-zero state, and setEnabled(e) leaves both loops' flags equal to e.
\* ------------------------------------------------------------------------

\* The outer loop's output for the update just made.
VelocitySetpoint ==
  PIDReturn(cascade.before.outerController, cascade.setpoint,
            cascade.position, cascade.dt)

C18_CascadeComposition ==
  /\ (cascade.op = "update" /\ cascade.before.enabled)
       => /\ cascade.c.outerController
               = PIDUpdate(cascade.before.outerController, cascade.setpoint,
                           cascade.position, cascade.dt)
          /\ Abs(VelocitySetpoint) <= cascade.c.outerController.outputMax
          /\ cascade.c.innerController
               = PIDUpdate(cascade.before.innerController, VelocitySetpoint,
                           cascade.velocity, cascade.dt)
          /\ cascade.c.innerController.state.error
               = VelocitySetpoint - cascade.velocity
          /\ cascade.returned = <<cascade.c.innerController.state.output>>
          /\ Abs(cascade.returned[1]) <= cascade.c.maxInnerSetpoint
  /\ cascade.op = "reset"
       => /\ cascade.c.outerController.state = ZeroPIDState
          /\ cascade.c.innerController.state = ZeroPIDState
  /\ cascade.op = "setEnabled"
       => /\ cascade.c.enabled = cascade.flag
          /\ cascade.c.outerController.enabled = cascade.flag
          /\ cascade.c.innerController.enabled = cascade.flag

\* A third or later call, an update on loops that hold the state of an
\* earlier update, whose outer loop drove the velocity setpoint to its limit.
C18_Witness ==
  /\ cascade.op = "update"
  /\ cascade.before.enabled
  /\ cascade.n >= 3
  /\ cascade.before.innerController.state.lastError # 0
  /\ Abs(VelocitySetpoint) = cascade.c.outerController.outputMax
  /\ cascade.c.innerController.state.output # 0

\* ------------------------------------------------------------------------
\* C19: after every update() of the DroneModel from a state with
\* position.z >= 0, position.z >= 0; and an update whose integration puts
\* position.z below 0 ends with position.z = 0 and velocity.z >= 0.
\* ------------------------------------------------------------------------

\* The vertical velocity and height the integration of the update just made
\* arrives at, before the test of position.z.
IntegratedVz ==
  body.before.velocity.z
    + TDiv(TDiv(calculateForces(body.before, body.inputs).z * 1000, params.mass)
             * body.dt, 1000)

IntegratedZ == body.before.position.z + TDiv(IntegratedVz * body.dt, 1000)

C19_GroundClamp ==
  (body.op = "update" /\ body.before.position.z >= 0)
    => /\ body.state.position.z >= 0
       /\ IntegratedZ < 0
            => body.state.position.z = 0 /\ body.state.velocity.z >= 0
       /\ IntegratedZ >= 0
            => /\ body.state.position.z = IntegratedZ
               /\ body.state.velocity.z = IntegratedVz

\* A second or later update that found the body just above the ground and
\* falling, and left it on the ground with no vertical velocity.
C19_Witness ==
  /\ body.op = "update"
  /\ body.n >= 2
  /\ body.before.position.z > 0
  /\ body.before.velocity.z < 0
  /\ IntegratedZ < 0
  /\ body.state.position.z = 0
  /\ body.state.velocity.z = 0

\* ------------------------------------------------------------------------
\* C20: starting from the zero state, after any number of update() steps
\* with any motor commands, roll, pitch and yaw each lie in (-pi, pi].
\* ------------------------------------------------------------------------

InHalfOpenTurn(a) == -Pi < a /\ a <= Pi

C20_AnglesNormalized ==
  body.origin = getInitialState
    => /\ InHalfOpenTurn(body.state.orientation.x)
       /\ InHalfOpenTurn(body.state.orientation.y)
       /\ InHalfOpenTurn(body.state.orientation.z)

\* ------------------------------------------------------------------------
\* C21: from the zero state with the default gains, in position_hold with
\* setpoint z = 2 m, after 2000 steps of 10 ms the vehicle is within 0.05 m
\* of the setpoint altitude.
\* ------------------------------------------------------------------------

C21_HoverConverges ==
  currentTime = FlightSteps * config.timestep
    => /\ Tracked
       /\ Abs(setpoints.position.z - heap[drone].position.z) < 50

\* What keeps the flight from converging: every step commands at least the
\* idle 0.65 on every motor, and once above the setpoint the vehicle climbs
\* faster after every step.
ClimbNeverSlows ==
  (ev.steps > 0 /\ Tracked)
    => /\ ev.appended[1].motorInputs.motor1 >= 650
       /\ Len(recorded) >= 2
            => heap[drone].velocity.z > recorded[Len(recorded) - 1].velocity.z
       /\ (currentTime >= 500 => heap[drone].position.z > 2050)

\* ------------------------------------------------------------------------
\* C22: in waypoint mode with the single waypoint (0, 0, 2), a step that
\* finds the vehicle within the completion tolerance of it leaves the
\* cursor past the last entry and the flight mode position_hold; and after
\* adding, removing or clearing waypoints the cursor is -1 on an empty list
\* and an index of the list otherwise.
\* ------------------------------------------------------------------------

OnLastWaypoint(c) ==
  /\ c.flightMode = "waypoint"
  /\ c.waypoints # <<>>
  /\ c.currentWaypointIndex = Len(c.waypoints) - 1

LastWaypoint(c) ==
  Vec(c.waypoints[Len(c.waypoints)].x, c.waypoints[Len(c.waypoints)].y,
      c.waypoints[Len(c.waypoints)].z)

RemovedActiveWaypoint ==
  /\ craft.op = "removeWaypoint"
  /\ craft.before.currentWaypointIndex = 1
  /\ Len(craft.before.waypoints) = 2
  /\ Len(craft.waypoints) = 1
  /\ craft.currentWaypointIndex = 0

\* ------------------------------------------------------------------------
\* C23: setConfig, setControllerConfig, setSetpoints and setManualInputs
\* leave their object with the supplied fields replaced and every other
\* field as it was, and change neither the other three objects nor the
\* kinematic state, the simulated time, the history, the flight mode or the
\* running flag.
\* ------------------------------------------------------------------------

\* new is old with the fields of one of the patches replaced.
MergedFrom(old, new, patches) ==
  \E p \in patches :
    /\ DOMAIN new = DOMAIN old
    /\ \A f \in DOMAIN old : new[f] = (IF f \in DOMAIN p THEN p[f] ELSE old[f])

SetterFrame ==
  UNCHANGED <<heap, drone, currentTime, dataHistory, flightMode, isRunning,
              animationId, lastFrameTime, pending>>

C23_SettersMerge ==
  /\ [][ev'.op = "setConfig" =>
          /\ MergedFrom(config, config', ConfigPatches)
          /\ UNCHANGED <<controllerConfig, controllers, setpoints, manualInputs>>
          /\ SetterFrame]_vars
  /\ [][ev'.op = "setControllerConfig" =>
          /\ MergedFrom(controllerConfig, controllerConfig', ControllerPatches)
          /\ UNCHANGED <<config, setpoints, manualInputs>>
          /\ SetterFrame]_vars
  /\ [][ev'.op = "setSetpoints" =>
          /\ MergedFrom(setpoints, setpoints', SetpointPatches)
          /\ UNCHANGED <<config, controllerConfig, controllers, manualInputs>>
          /\ SetterFrame]_vars
  /\ [][ev'.op = "setManualInputs" =>
          /\ MergedFrom(manualInputs, manualInputs', ManualPatches)
          /\ UNCHANGED <<config, controllerConfig, controllers, setpoints>>
          /\ SetterFrame]_vars

\* A second setConfig, made while running with samples in the history, has
\* kept the field the first one set.
C23_Witness ==
  /\ ev.op = "setConfig"
  /\ calls = 2
  /\ config.timestep = 20
  /\ config.enablePhysics = FALSE
  /\ config.enableControl
  /\ isRunning
  /\ dataHistory # <<>>

\* ------------------------------------------------------------------------
\* C24: a step with enablePhysics = false leaves the kinematic state as it
\* was, appends a sample and advances the simulated time by one timestep; a
\* step with enableControl = false commands 0.6 on every motor in a
\* non-manual mode and the manual mix in manual mode; setConfig changes
\* neither the running flag nor the flight mode.
\* ------------------------------------------------------------------------
C24_FlagsBypass ==
  /\ [][(ev'.steps = 1 /\ ~config.enablePhysics) =>
          /\ drone' = drone
          /\ heap'[drone'] = heap[drone]
          /\ Len(ev'.appended) = 1
          /\ Last(dataHistory') = ev'.appended[1]
          /\ Last(recorded') = heap[drone]
          /\ currentTime' = currentTime + config.timestep]_vars
  /\ [][(ev'.steps = 1 /\ ~config.enableControl) =>
          /\ ev'.appended[1].motorInputs =
               (IF flightMode = "manual"
                THEN ManualCommand(manualInputs)
                ELSE [motor1 |-> 600, motor2 |-> 600,
                      motor3 |-> 600, motor4 |-> 600])
          /\ ev'.appended[1].controlOutputs = ZeroOutputs]_vars
  /\ [][ev'.op = "setConfig" => UNCHANGED <<isRunning, flightMode>>]_vars

\* With physics and control both switched off while running, a step ran in
\* a non-manual mode on a vehicle that an earlier step had moved.
C24_Witness ==
  /\ ev.steps = 1
  /\ isRunning
  /\ ~config.enablePhysics
  /\ ~config.enableControl
  /\ flightMode # "manual"
  /\ Len(dataHistory) >= 2
  /\ heap[drone] # getInitialState
  /\ Last(dataHistory).motorInputs = IdleMotors

\* ------------------------------------------------------------------------
\* C25: the executor answers a request at most once, with the request's id,
\* and only when the request is complete: getTelemetry at once with the
\* current kinematic state, takeoff(a) with |z - a| within 0.1 m, land
\* within 0.05 m of the landing altitude 0.1 m, moveTo with the target
\* position reached.
\* ------------------------------------------------------------------------
AnsweredOnce ==
  \A i \in 1..Len(channel.answered) : \A j \in 1..Len(channel.answered) :
    channel.answered[i].id = channel.answered[j].id => i = j

AnswersARequest(a) ==
  \E i \in 1..Len(channel.sent) :
    /\ channel.sent[i].id = a.id
    /\ channel.sent[i].type = a.type
    /\ channel.sent[i].payload = a.request

Complete(a) ==
  CASE a.type = "getTelemetry" -> a.payload = <<a.position>>
    [] a.type = "takeoff" -> Abs(a.position.z - a.request.altitude) < 100
    [] a.type = "land" -> Abs(a.position.z - 100) < 50
    [] a.type = "moveTo" ->
         Reached(a.position, Vec(a.request.x, a.request.y, a.request.z))

C25_AnsweredWhenComplete ==
  /\ AnsweredOnce
  /\ \A i \in 1..Len(channel.answered) :
       /\ AnswersARequest(channel.answered[i])
       /\ Complete(channel.answered[i])

\* The same for every request but moveTo.
AnsweredWhenCompleteButMoveTo ==
  /\ AnsweredOnce
  /\ \A i \in 1..Len(channel.answered) :
       /\ AnswersARequest(channel.answered[i])
       /\ (channel.answered[i].type # "moveTo" => Complete(channel.answered[i]))

\* A moveTo was answered away from its target with the mode changed by
\* somebody else than the sequencer.
MoveToAnsweredEarly ==
  \E i \in 1..Len(channel.answered) :
    /\ channel.answered[i].type = "moveTo"
    /\ ~Complete(channel.answered[i])

\* A moveTo and a takeoff have both been answered when complete.
AnsweredAtTarget ==
  \A t \in {"takeoff", "moveTo"} :
    \E i \in 1..Len(channel.answered) :
      channel.answered[i].type = t /\ Complete(channel.answered[i])

\* ------------------------------------------------------------------------
\* C26: every request carries an id no earlier request carried; a
\* commandResponse settles the pending request with its id and no other,
\* a request is settled at most once and is then no longer pending, and a
\* response whose id is not pending changes nothing.
\* ------------------------------------------------------------------------
Distinct(q) ==
  \A i \in 1..Len(q) : \A j \in 1..Len(q) : q[i].id = q[j].id => i = j

C26_CorrelationIds ==
  /\ [](/\ Distinct(channel.sent)
        /\ Distinct(channel.settled)
        /\ \A i \in 1..Len(channel.settled) :
             channel.settled[i].id \notin channel.commandPromises
        /\ channel.commandPromises \subseteq
             {channel.sent[i].id : i \in 1..Len(channel.sent)})
  /\ [][(channel' # channel /\ channel'.last.op = "postCommand") =>
          /\ Len(channel'.sent) = Len(channel.sent) + 1
          /\ Last(channel'.sent).id = channel'.last.id
          /\ channel'.commandPromises =
               channel.commandPromises \cup {channel'.last.id}
          /\ channel'.settled = channel.settled]_vars
  /\ [][(channel' # channel /\ channel'.last.op = "commandResponse") =>
          IF channel'.last.id \in channel.commandPromises
          THEN /\ channel'.commandPromises =
                    channel.commandPromises \ {channel'.last.id}
               /\ Len(channel'.settled) = Len(channel.settled) + 1
               /\ SubSeq(channel'.settled, 1, Len(channel.settled)) =
                    channel.settled
               /\ Last(channel'.settled).id = channel'.last.id
          ELSE [channel' EXCEPT !.last = channel.last] = channel]_vars

\* With one request still pending, a second response arrived for a request
\* that an earlier response had rejected.
C26_Witness ==
  /\ channel.last.op = "commandResponse"
  /\ channel.last.id \notin channel.last.commandPromises
  /\ \E i \in 1..Len(channel.settled) :
       /\ channel.settled[i].id = channel.last.id
       /\ channel.settled[i].how = "rejected"
  /\ channel.commandPromises # {}
  /\ channel.commandId = 2

\* ------------------------------------------------------------------------
\* C27: the part of the net force that is drag opposes the velocity on each
\* axis and is zero at rest; with the motors off and gravity set aside an
\* update does not increase the speed on any axis.
\* ------------------------------------------------------------------------
MotorsOff == Motors(0, 0, 0, 0)

\* The net force with the motors off, less the weight: what drag adds.
DragContribution(state) ==
  LET less(f) == Vec(f.x, f.y, f.z + TDiv(params.mass * gravity, 1000))
  IN  less(calculateForces(state, MotorsOff))

Opposes(force, velocity) == Sign(force) * Sign(velocity) <= 0

C27_DragOpposesMotion ==
  body.op = "update" =>
    LET drag == DragContribution(body.before)
        was == body.before.velocity
        is == body.state.velocity
        fall == TDiv(gravity * body.dt, 1000)
    IN  /\ Opposes(drag.x, was.x)
        /\ Opposes(drag.y, was.y)
        /\ Opposes(drag.z, was.z)
        /\ (was = Vec(0, 0, 0) => drag = Vec(0, 0, 0))
        /\ (body.inputs = MotorsOff /\ body.state.position.z > 0)
             => /\ Abs(is.x) <= Abs(was.x)
                /\ Abs(is.y) <= Abs(was.y)
                /\ Abs(is.z + fall) <= Abs(was.z)

\* Drag is zero at rest and, in motion, never opposes the velocity: on
\* every axis it has the sign of the velocity or is zero.
DragFollowsMotion ==
  body.op = "update" =>
    LET drag == DragContribution(body.before)
        was == body.before.velocity
    IN  /\ Sign(drag.x) * Sign(was.x) >= 0
        /\ Sign(drag.y) * Sign(was.y) >= 0
        /\ Sign(drag.z) * Sign(was.z) >= 0
        /\ (was = Vec(0, 0, 0) => drag = Vec(0, 0, 0))

\* With the motors off a moving body was updated and drag was not zero.
DragActed ==
  /\ body.op = "update"
  /\ body.inputs = MotorsOff
  /\ body.before.velocity.x # 0
  /\ DragContribution(body.before).x # 0
  /\ DragContribution(body.before).z # 0

\* ------------------------------------------------------------------------
\* C28: in altitude_hold, position_hold and waypoint mode with control
\* enabled the altitude output of a step lies in [0, 10], whatever the
\* altitude error, so the base thrust the mixer starts from is 0.65 or more.
\* ------------------------------------------------------------------------
AltitudeModes == {"altitude_hold", "position_hold", "waypoint"}

C28_ThrustFloor ==
  \A i \in 1..Len(ev.appended) :
    LET d == ev.appended[i]
    IN  (d.flightMode \in AltitudeModes /\ config.enableControl)
          => /\ 0 <= d.controlOutputs.altitude
             /\ d.controlOutputs.altitude <= 10000
             /\ controllers.altitudeController.state.output
                  = d.controlOutputs.altitude
             /\ modeInputs(d.flightMode, d.manualInputs,
                           d.controlOutputs).baseThrust >= 650

\* A controlled step ran in altitude_hold with the vehicle above its
\* altitude setpoint, and the altitude output was zero.
C28_Witness ==
  /\ ev.steps = 1
  /\ config.enableControl
  /\ flightMode = "altitude_hold"
  /\ Last(dataHistory).errors.altitude < 0
  /\ Last(dataHistory).controlOutputs.altitude = 0

\* ------------------------------------------------------------------------
\* C29: a step in manual mode or with enableControl = false leaves the six
\* controllers exactly as they were, setFlightMode and setConfig reset
\* nothing, and so the first controlled step after a return to an automatic
\* mode continues from the controller state the last controlled step left.
\* ------------------------------------------------------------------------
C29_BypassKeepsControllers ==
  /\ [][(ev'.steps = 1 /\ (flightMode = "manual" \/ ~config.enableControl))
          => controllers' = controllers]_vars
  /\ [][ev'.op \in {"setFlightMode", "setConfig", "setSetpoints",
                    "setManualInputs", "start", "pause"}
          => controllers' = controllers]_vars
  /\ [][(ev'.steps = 1 /\ flightMode # "manual" /\ config.enableControl)
          => controllers' =
               calculateControlOutputs(controllers, setpoints, heap[drone],
                                       config.timestep).controllers]_vars

\* Three steps in a row ran controlled, in manual mode and controlled
\* again, and the altitude controller of the third took its derivative from
\* the error the first had left.
C29_Witness ==
  /\ ev.steps = 1
  /\ config.enableControl
  /\ Len(dataHistory) = 3
  /\ dataHistory[1].flightMode = "position_hold"
  /\ dataHistory[2].flightMode = "manual"
  /\ dataHistory[3].flightMode = "altitude_hold"
  /\ dataHistory[1].errors.altitude # 0
  /\ controllers.altitudeController.state.lastError # 0
  /\ controllers.altitudeController.state.derivative < 0

\* ------------------------------------------------------------------------
\* C30: at most one frame request of the orchestrator is outstanding at any
\* time and none while it is not running; start() on a running orchestrator
\* requests nothing; whatever start(), pause() and reset() calls are made,
\* from outside or from the update callback during a step.
\* ------------------------------------------------------------------------
Outstanding == Len(pending) + Len(queue)

C30_OneFrameRequest ==
  /\ [](/\ Outstanding <= 1
        /\ (~isRunning => Outstanding = 0))
  /\ [][(ev'.op = "start" /\ isRunning) => UNCHANGED <<pending, queue>>]_vars

\* A frame request is outstanding though the orchestrator is paused, and
\* the update callback ran in the last handler.
RequestWhilePaused ==
  /\ ~isRunning
  /\ Outstanding = 1
  /\ ev.op = "animate"
  /\ ev.updates = 1

\* Two frame requests are outstanding at once.
TwoRequests == Outstanding = 2

====
